---- MODULE Spec2Model ----
(***************************************************************************)
(* Crawl / analysis pipeline of AI Auditor Pro.                            *)
(*                                                                         *)
(*   services/googleService.ts  fetchWithProxy, extractJson,               *)
(*                              discoverUrlsToCrawl, analyzePageBatch,     *)
(*                              fetchAllUrlsFromSitemaps, analyzeRobotsTxt,*)
(*                              analyzeAdsTxt  (multi-provider service)    *)
(*   unnamed/part_000           the older Gemini-only service              *)
(*   components/Auditor.tsx     calculateCrawlSummary                      *)
(*                                                                         *)
(* Every machine has its own variables and its own specification; the      *)
(* variables of the other machines stay at their idle values.              *)
(***************************************************************************)
EXTENDS Integers, Sequences, FiniteSets, TLC

VARIABLES
    \* calculateCrawlSummary: the reduce over pages
    pages,          \* the argument: a sequence of page statuses
    acc,            \* the accumulator of the reduce
    sIdx,           \* number of pages already folded into acc
    \* fetchWithProxy: one record per call in flight
    calls,
    \* discoverUrlsToCrawl
    startUrl,       \* the seed, as the caller wrote it
    crawlDepth,
    queue,          \* sequence of [url, depth]
    visited,        \* Set<string>
    foundUrls,      \* Set<string>, in insertion order
    qi,             \* the loop index i
    crawlPc,        \* "loop" | "done"
    crawlFetched,   \* history: the queue entries handed to fetchWithProxy
    crawlSawForeign,\* history: a fetched page held an http(s) link to another host
    crawlLast,      \* history, kept unless "off": how the last iteration went
    crawlGraph,     \* history, kept when on: the links of the pages fetched
    crawlResult,    \* the returned array
    \* fetchAllUrlsFromSitemaps
    smQueue,        \* queue: sequence of sitemap URL strings
    visitedSitemaps,
    allEntries,     \* sequence of SitemapEntry
    smPc,           \* "robots" | "loop" | "delay" | "done"
    smLast,         \* history: what the last loop iteration did
    smResult,       \* the returned array
    smApiKey,
    smNet,          \* history: a relay fetch or a backend request was issued
    \* analyzeRobotsTxt / analyzeAdsTxt
    wkKind,         \* "robots" | "ads"
    wkImpl,         \* "multi" (services/googleService.ts) | "legacy" (part_000)
    wkProvider,     \* agent.provider
    wkApiKey,
    wkPc,           \* "fetching" | "calling" | "returned" | "thrown"
    wkModelCalls,   \* history: requests sent to the model backend
    wkResult,       \* the returned value
    wkError,        \* the message of the error thrown
    wkOutcome,      \* history: what the request came to
    \* analyzePageBatch
    bUrls,          \* the argument urls
    bImpl,          \* "multi" (services/googleService.ts) | "legacy" (part_000)
    bProvider,      \* agent.provider
    bApiKey,
    bPc,            \* "fetching" | "calling" | "returned" | "thrown"
    bSent,          \* validPages: the URLs in the prompt
    bModelCalls,    \* history: requests sent to the model backend
    bOutcome,       \* history: what the request came to
    bResult,        \* results, then the returned array
    bError,         \* the message of the error thrown
    \* handleAnalysis (components/Auditor.tsx) and its onSaveResults
    hMode,          \* analysisMode
    hUrlModified,   \* isUrlModified
    hPre,           \* what the run finds: agent and key
    hPc,            \* "called" | "service" | "batches" | "saving" | "done"
    hError,         \* the error state; "" is null
    hViewing,       \* viewingAudit: "none" | "cached" | "transient" | "saved"
    hSaved,         \* history: an audit record was inserted
    hUrls,          \* allUrls.length
    hI,             \* the loop index i
    hCrawled,       \* finalCrawledData.length
    hEntries,       \* finalSitemapData.length, -1 for null
    hBatches,       \* history: the batches dispatched, in order
    \* one call of extractJson(text)
    exText,         \* the argument
    exPc,           \* "called" | "returned"
    exResult,       \* the value returned
    \* two discovery runs whose awaits interleave
    runKind,        \* "crawl" | "sitemap": the function both runs call
    web,            \* what each fetch (and its parse) comes to, per URL
    runs,           \* per run: its arguments, its locals, its position
    runsMet         \* history: a run took a step while the other was under way

varsSummary == <<pages, acc, sIdx>>
varsFetch   == <<calls>>
varsCrawl   == <<startUrl, crawlDepth, queue, visited, foundUrls, qi, crawlPc,
                 crawlFetched, crawlSawForeign, crawlResult, crawlLast,
                 crawlGraph>>
varsSitemap == <<smQueue, visitedSitemaps, allEntries, smPc, smLast, smResult,
                 smApiKey, smNet>>
varsWk      == <<wkKind, wkImpl, wkProvider, wkApiKey, wkPc, wkModelCalls,
                 wkResult, wkError, wkOutcome>>
varsAudit   == <<hMode, hUrlModified, hPre, hPc, hError, hViewing, hSaved,
                 hUrls, hI, hCrawled, hEntries, hBatches>>
varsExtract == <<exText, exPc, exResult>>
varsRuns    == <<runKind, web, runs, runsMet>>
varsBatch   == <<bUrls, bImpl, bProvider, bApiKey, bPc, bSent, bModelCalls,
                 bOutcome, bResult, bError>>

-----------------------------------------------------------------------------
(* Generic helpers *)

Range(s) == {s[k] : k \in DOMAIN s}

\* All sequences over S of length at most n.
SeqUpTo(S, n) == UNION {[1..k -> S] : k \in 0..n}

Min2(a, b) == IF a <= b THEN a ELSE b
Max2(a, b) == IF a >= b THEN a ELSE b

-----------------------------------------------------------------------------
(* calculateCrawlSummary, components/Auditor.tsx:103-112 *)

MaxPages == 3

\* Page statuses: CrawledPage.status is a number the model backend asserts
\* (item?.status ?? 500) or the fetch placeholder sets; the values sit on
\* both sides of every range boundary of the summary.
StatusValues == {0, 100, 199, 200, 299, 300, 399, 400, 404, 499, 500, 503}

ZeroSummary ==
    [totalPages |-> 0, healthyPages |-> 0, redirects |-> 0,
     clientErrors |-> 0, serverErrors |-> 0]

\* The reduce callback: one page folded into the accumulator.
SummaryStep(a, status) ==
    LET a1 == [a EXCEPT !.totalPages = @ + 1]
    IN  IF status >= 200 /\ status < 300 THEN [a1 EXCEPT !.healthyPages = @ + 1]
        ELSE IF status >= 300 /\ status < 400 THEN [a1 EXCEPT !.redirects = @ + 1]
        ELSE IF status >= 400 /\ status < 500 THEN [a1 EXCEPT !.clientErrors = @ + 1]
        ELSE IF status >= 500 THEN [a1 EXCEPT !.serverErrors = @ + 1]
        ELSE a1

RECURSIVE FoldSummary(_, _)
FoldSummary(a, ps) ==
    IF ps = <<>> THEN a ELSE FoldSummary(SummaryStep(a, Head(ps)), Tail(ps))

calculateCrawlSummary(ps) == FoldSummary(ZeroSummary, ps)

InitSummary ==
    /\ pages \in SeqUpTo(StatusValues, MaxPages)
    /\ acc = ZeroSummary
    /\ sIdx = 0

\* One iteration of pages.reduce.
ReducePage ==
    /\ sIdx < Len(pages)
    /\ acc' = SummaryStep(acc, pages[sIdx + 1])
    /\ sIdx' = sIdx + 1
    /\ UNCHANGED pages

SummaryDone == sIdx = Len(pages)

-----------------------------------------------------------------------------
(* fetchWithProxy, services/googleService.ts:550-581 *)

MaxRetries == 3
DefaultRetries == 3
BackoffUnit == 500

\* The relay statuses a non-2xx answer may carry.
RelayStatuses == {404}

\* How one attempt can fail: a non-2xx relay response (with its status), a
\* network error of fetch, the deadline abort of the attempt's controller.
FailKinds == {[kind |-> "http", status |-> s] : s \in RelayStatuses}
             \cup {[kind |-> "network", status |-> 0],
                   [kind |-> "abort", status |-> 0]}

NoErr == [kind |-> "none", status |-> 0]

\* The texts response.text() may yield.
Bodies == {"<html>"}

\* The log of a call is kept only for the calls that ask for it.
Logged(c, ev) == IF c.trace THEN Append(c.events, ev) ELSE c.events

\* A call just entered: the for loop is about to test i < retries.
NewCall(url, retries, trace) ==
    [url |-> url, retries |-> retries, i |-> 0, trace |-> trace,
     pc |-> IF 0 < retries THEN "attempt" ELSE "thrown",
     attempts |-> 0, events |-> <<>>, lastErr |-> NoErr, result |-> "",
     final |-> IF 0 < retries THEN "none" ELSE "short"]

\* The attempt i of call c gets a 2xx response and its body: return.
AttemptOkOf(c, body) ==
    [c EXCEPT !.pc = "returned", !.attempts = @ + 1, !.result = body,
              !.lastErr = NoErr,
              !.events = Logged(c, [e |-> "ok", n |-> c.i + 1, body |-> body,
                                    err |-> NoErr])]

\* A slip in the last-attempt test: it compares i with retries.
AfterFailureLate(c) == IF c.i = c.retries THEN "thrown" ELSE "backoff"

\* What the catch block does with a failed attempt: the final throw when
\* i = retries - 1, else the backoff wait.
AfterFailure(c) == IF c.i = c.retries - 1 THEN "thrown" ELSE "backoff"

AttemptFailOf(c, err) ==
    [c EXCEPT !.pc = AfterFailure(c), !.attempts = @ + 1,
              !.lastErr = IF c.trace THEN err ELSE @,
              !.final = IF AfterFailure(c) = "thrown" THEN "long" ELSE @,
              !.events = Logged(c, [e |-> "fail", n |-> c.i + 1, body |-> "",
                                    err |-> err])]

\* The delay of the backoff after the failed attempt with index i.
BackoffDelay(i) == BackoffUnit * (i + 1)

\* The backoff timer fires: i++ and the loop test i < retries; when it
\* fails the throw after the loop (line 580) ends the call.
BackoffOf(c) ==
    [c EXCEPT !.pc = IF c.i + 1 < c.retries THEN "attempt" ELSE "thrown",
              !.final = IF c.i + 1 < c.retries THEN @ ELSE "short",
              !.i = @ + 1,
              !.events = Logged(c, [e |-> "wait", n |-> BackoffDelay(c.i),
                                    body |-> "", err |-> NoErr])]

\* The text of the URL string of u, word by word.
PathWords(path) == IF path = "/status 404" THEN <<"/", "status", "404">> ELSE <<path>>
UrlText(u) == <<u.scheme \o "//" \o u.host>> \o PathWords(u.path)

\* The message of the error a call ends with: the throw in the catch of
\* the last attempt, or the throw after the loop.
FetchErrorMessage(c) ==
    IF c.final = "long"
    THEN <<"Failed to fetch content for">> \o UrlText(c.url)
         \o <<"after", ToString(c.retries),
              "attempts. The site might be blocking the CORS proxy, or the proxy service may be temporarily unavailable. Please try again later.">>
    ELSE <<"Failed to fetch content for">> \o UrlText(c.url) \o <<".">>

AttemptOk(s) ==
    /\ calls[s].pc = "attempt"
    /\ \E body \in Bodies :
         calls' = [calls EXCEPT ![s] = AttemptOkOf(calls[s], body)]

AttemptFail(s) ==
    /\ calls[s].pc = "attempt"
    /\ \E err \in FailKinds :
         calls' = [calls EXCEPT ![s] = AttemptFailOf(calls[s], err)]

Backoff(s) ==
    /\ calls[s].pc = "backoff"
    /\ calls' = [calls EXCEPT ![s] = BackoffOf(calls[s])]

-----------------------------------------------------------------------------
(* Texts, extractJson (services/googleService.ts:586-606) and JSON.parse *)

\* A text is a sequence of tokens.  "{", "}", "[", "]" are the brackets,
\* "w" a stretch of prose without brackets, "null" the JSON null, a token
\* ending in ":" a member key followed by its value, and any other token
\* (an atom) a whole "key": value member whose value is a scalar or a list
\* of scalars.
NestKeys == {"error:", "pages:"}
\* The fields of a page item that have a default, the value each has in
\* the answers below, and the member "key=value" as a token.  Values are
\* written as their JSON text.
ItemFields ==
    {"title", "description", "h1", "contentPreview", "internalLinks",
     "externalLinks", "metaTags", "internalLinkUrls", "externalLinkUrls"}
SampleValue(key) ==
    CASE key = "title" -> "T"
      [] key = "description" -> "D"
      [] key = "h1" -> "H"
      [] key = "contentPreview" -> "C"
      [] key = "internalLinks" -> "3"
      [] key = "externalLinks" -> "1"
      [] key = "metaTags" -> "[m]"
      [] key = "internalLinkUrls" -> "[u]"
      [] key = "externalLinkUrls" -> "[v]"
FieldAtom(key, value) == key \o "=" \o value
ItemAtoms ==
    UNION {{FieldAtom(k, SampleValue(k)), FieldAtom(k, "null")} : k \in ItemFields}

Atoms == {"url=p", "url=s", "url=x", "status=404", "title=T",
          "rules", "sitemaps", "records", "malformedLines",
          "message=429", "message=quota"} \cup ItemAtoms

\* text.indexOf(ch), counted from 1; 0 when absent.
IndexOf(text, ch) ==
    IF \E k \in DOMAIN text : text[k] = ch
    THEN CHOOSE k \in DOMAIN text :
             text[k] = ch /\ \A j \in 1..(k - 1) : text[j] # ch
    ELSE 0

\* text.lastIndexOf(ch), counted from 1; 0 when absent.
LastIndexOf(text, ch) ==
    IF \E k \in DOMAIN text : text[k] = ch
    THEN CHOOSE k \in DOMAIN text :
             text[k] = ch /\ \A j \in (k + 1)..Len(text) : text[j] # ch
    ELSE 0

extractJson(text) ==
    LET firstBracket == IndexOf(text, "{")
        firstSquare  == IndexOf(text, "[")
        startIndex   == IF firstBracket = 0 THEN firstSquare
                        ELSE IF firstSquare = 0 THEN firstBracket
                        ELSE Min2(firstBracket, firstSquare)
        lastBracket  == LastIndexOf(text, "}")
        lastSquare   == LastIndexOf(text, "]")
        endIndex     == Max2(lastBracket, lastSquare)
    IN  IF firstBracket = 0 /\ firstSquare = 0 THEN <<>>
        ELSE IF startIndex = 0 \/ endIndex = 0 \/ endIndex < startIndex THEN <<>>
        ELSE SubSeq(text, startIndex, endIndex)

\* One call of extractJson on a text of brackets and prose.
MaxTextLen == 4
TextTokens == {"{", "}", "[", "]", "w"}

InitExtract ==
    /\ exText \in UNION {[1..n -> TextTokens] : n \in 0..MaxTextLen}
    /\ exPc = "called"
    /\ exResult = <<>>

ExtractJsonCall ==
    /\ exPc = "called"
    /\ exResult' = extractJson(exText)
    /\ exPc' = "returned"
    /\ UNCHANGED exText

\* JSON values: t is "null", "arr" (items) or "obj" (atoms: the members
\* given by atoms; nested: the members given by a key and a value).
JNull == [t |-> "null", items |-> <<>>, atoms |-> {}, nested |-> <<>>]
JArr(items) == [t |-> "arr", items |-> items, atoms |-> {}, nested |-> <<>>]
JObj(atoms, nested) == [t |-> "obj", items |-> <<>>, atoms |-> atoms, nested |-> nested]

ParseFail == [ok |-> FALSE, val |-> JNull, next |-> 0]
ParseOk(val, next) == [ok |-> TRUE, val |-> val, next |-> next]

RECURSIVE ParseValue(_, _), ParseElems(_, _, _), ParseMembers(_, _, _, _)
ParseValue(t, p) ==
    IF p > Len(t) THEN ParseFail
    ELSE IF t[p] = "null" THEN ParseOk(JNull, p + 1)
    ELSE IF t[p] = "[" THEN ParseElems(t, p + 1, <<>>)
    ELSE IF t[p] = "{" THEN ParseMembers(t, p + 1, {}, <<>>)
    ELSE ParseFail
ParseElems(t, p, items) ==
    IF p > Len(t) THEN ParseFail
    ELSE IF t[p] = "]" THEN ParseOk(JArr(items), p + 1)
    ELSE LET r == ParseValue(t, p)
         IN  IF r.ok THEN ParseElems(t, r.next, Append(items, r.val)) ELSE ParseFail
ParseMembers(t, p, atoms, nested) ==
    IF p > Len(t) THEN ParseFail
    ELSE IF t[p] = "}" THEN ParseOk(JObj(atoms, nested), p + 1)
    ELSE IF t[p] \in NestKeys
    THEN LET r == ParseValue(t, p + 1)
         IN  IF r.ok
             THEN ParseMembers(t, r.next, atoms,
                               Append(nested, [key |-> t[p], val |-> r.val]))
             ELSE ParseFail
    ELSE IF t[p] \in Atoms THEN ParseMembers(t, p + 1, atoms \cup {t[p]}, nested)
    ELSE ParseFail

\* JSON.parse(text): the whole text must be one value, else a SyntaxError.
JsonParse(text) ==
    LET r == ParseValue(text, 1)
    IN  IF r.ok /\ r.next = Len(text) + 1 THEN r ELSE ParseFail

\* The key of a member.
KeyOfAtom(a) ==
    CASE a \in {"url=p", "url=s", "url=x"} -> "url"
      [] a = "status=404" -> "status"
      [] a \in ItemAtoms ->
            CHOOSE k \in ItemFields : a \in {FieldAtom(k, SampleValue(k)), FieldAtom(k, "null")}
      [] a \in {"message=429", "message=quota"} -> "message"
      [] OTHER -> a
KeyOfNest(k) == IF k = "error:" THEN "error" ELSE "pages"

\* Object.keys(v) for an object v.
KeysOf(v) ==
    {KeyOfAtom(a) : a \in v.atoms} \cup {KeyOfNest(v.nested[k].key) : k \in DOMAIN v.nested}

\* key in v, for a value v that is an object or an array.
HasKey(v, key) == v.t = "obj" /\ key \in KeysOf(v)

\* Error messages are texts too; message.includes(s) for the three
\* substrings the service looks for, each a token of its own.
Includes(msg, s) == \E k \in DOMAIN msg : msg[k] = s

IsRateLimitMessage(msg) ==
    Includes(msg, "429") \/ Includes(msg, "RESOURCE_EXHAUSTED")
        \/ Includes(msg, "rate limit")

SyntaxErrorMsg == <<"Unexpected token in JSON">>
TypeErrorMsg == <<"Cannot read properties of undefined">>

-----------------------------------------------------------------------------
(* URLs and hyperlinks *)

Hosts == {"a.com", "b.com"}

\* An http(s) URL string.  path "" is an origin written without its trailing
\* slash ("https://a.com"): a caller may write it, URL.href never yields it.
Url(scheme, host, path) == [scheme |-> scheme, host |-> host, path |-> path]

\* new URL(s).href for a URL string s: the empty path becomes "/".
Href(u) == [u EXCEPT !.path = IF @ = "" THEN "/" ELSE @]

\* new URL(s).hostname
Hostname(u) == u.host

\* The values of an <a href> attribute.  kind:
\*   "abs"     absolute URL scheme://host/path#frag
\*   "rel"     path relative to the page, possibly with a fragment
\*   "mailto", "tel", "empty"   rejected before parsing
\*   "invalid" new URL(href, url) throws
AbsLink(scheme, host, path, frag) ==
    [kind |-> "abs", scheme |-> scheme, host |-> host, path |-> path, frag |-> frag]
RelLink(path, frag) ==
    [kind |-> "rel", scheme |-> "", host |-> "", path |-> path, frag |-> frag]
OtherLink(kind) ==
    [kind |-> kind, scheme |-> "", host |-> "", path |-> "", frag |-> ""]

HrefSet ==
    { AbsLink("https:", "a.com", "/", ""),
      AbsLink("https:", "a.com", "/p", "#top"),
      AbsLink("http:", "a.com", "/p", ""),
      AbsLink("https:", "b.com", "/", ""),
      AbsLink("http:", "b.com", "/p", ""),
      AbsLink("ftp:", "a.com", "/p", ""),
      RelLink("/p", ""),
      RelLink("/q", "#s"),
      OtherLink("mailto"), OtherLink("tel"), OtherLink("empty"),
      OtherLink("invalid") }

\* new URL(href, base) for the hrefs that parse: protocol, hostname and
\* href without its fragment (urlObject.href.split('#')[0]).
Resolve(href, base) ==
    IF href.kind = "abs"
    THEN [protocol |-> href.scheme, hostname |-> href.host,
          absoluteUrl |-> Url(href.scheme, href.host, href.path)]
    ELSE [protocol |-> base.scheme, hostname |-> base.host,
          absoluteUrl |-> Url(base.scheme, base.host, href.path)]

-----------------------------------------------------------------------------
(* discoverUrlsToCrawl, services/googleService.ts:611-665 *)

MaxDepth == 2
MaxLinks == 2

StartUrls ==
    { Url("https:", "a.com", ""), Url("https:", "a.com", "/p"),
      Url("http:", "b.com", "/") }

\* A slip that drops the hostname comparison.
AcceptLinkAnyHost(r, base, vis) == r.absoluteUrl \notin vis

\* The test that lets a parsed link into the crawl (line 650).
AcceptLink(r, base, vis) ==
    r.hostname = Hostname(base) /\ r.absoluteUrl \notin vis

\* A slip that enqueues a link at the depth of its page.
VisitLinkSameDepth(st, href, url, depth, base) ==
    IF href.kind \in {"empty", "mailto", "tel", "invalid"} THEN st
    ELSE LET r == Resolve(href, url)
         IN  IF r.protocol \in {"http:", "https:"} /\ AcceptLink(r, base, st.visited)
             THEN [visited   |-> st.visited \cup {r.absoluteUrl},
                   foundUrls |-> Append(st.foundUrls, r.absoluteUrl),
                   queue     |-> Append(st.queue,
                                   [url |-> r.absoluteUrl, depth |-> depth])]
             ELSE st

\* The body of links.forEach for one link; st = [visited, foundUrls, queue].
VisitLink(st, href, url, depth, base) ==
    IF href.kind \in {"empty", "mailto", "tel"} THEN st
    ELSE IF href.kind = "invalid" THEN st
    ELSE LET r == Resolve(href, url)
         IN  IF r.protocol # "http:" /\ r.protocol # "https:" THEN st
             ELSE IF AcceptLink(r, base, st.visited)
             THEN [visited   |-> st.visited \cup {r.absoluteUrl},
                   foundUrls |-> Append(st.foundUrls, r.absoluteUrl),
                   queue     |-> Append(st.queue,
                                   [url |-> r.absoluteUrl, depth |-> depth + 1])]
             ELSE st

\* A slip that looks at the first link of a page only.
VisitLinksFirstOnly(st, links, url, depth, base) ==
    IF links = <<>> THEN st ELSE VisitLink(st, Head(links), url, depth, base)

RECURSIVE VisitLinks(_, _, _, _, _)
VisitLinks(st, links, url, depth, base) ==
    IF links = <<>> THEN st
    ELSE VisitLinks(VisitLink(st, Head(links), url, depth, base),
                    Tail(links), url, depth, base)

\* Whether a parsed link is an http(s) link whose hostname is not the seed's.
IsForeign(href, url, base) ==
    /\ href.kind \in {"abs", "rel"}
    /\ Resolve(href, url).protocol \in {"http:", "https:"}
    /\ Resolve(href, url).hostname # Hostname(base)

\* A slip in the depth test: > for >=.
SkipExpansionLate(depth, maxDepth) == depth > maxDepth

\* The test that skips the expansion of a queue entry (line 625).
SkipExpansion(depth, maxDepth) == depth >= maxDepth

\* The history of the iterations is kept only for the crawls that ask for it.
LastIteration(kind) == IF crawlLast = "off" THEN "off" ELSE kind

\* The hrefs of the pages of the crawls that keep the link graph, and the
\* lists of links a fetched page may hold.
GraphHrefSet ==
    { RelLink("/p", ""), RelLink("/q", "#s"),
      AbsLink("https:", "a.com", "/", ""),
      AbsLink("http:", "b.com", "/p", "") }
LinkLists ==
    IF crawlGraph.on THEN SeqUpTo(GraphHrefSet, MaxLinks + 1)
    ELSE SeqUpTo(HrefSet, MaxLinks)

\* The URLs a page links to on the seed's host: the http(s) links whose
\* hostname is the seed's, without their fragment.
LinkTargets(links, url, base) ==
    { Url(links[k].scheme, links[k].host, links[k].path) :
        k \in { j \in DOMAIN links :
                  /\ links[j].kind = "abs"
                  /\ links[j].scheme \in {"http:", "https:"}
                  /\ links[j].host = base.host } }
    \cup { Url(url.scheme, url.host, links[k].path) :
        k \in { j \in DOMAIN links :
                  links[j].kind = "rel" /\ url.host = base.host } }

\* The link graph after the page at url was fetched with these links.
GraphWith(links, url, base) ==
    IF crawlGraph.on
    THEN [crawlGraph EXCEPT
            !.edges = @ \cup {<<url, t>> : t \in LinkTargets(links, url, base)}]
    ELSE crawlGraph

InitCrawlWith(urls, last) ==
    /\ crawlGraph = [on |-> FALSE, edges |-> {}]
    /\ startUrl \in urls
    /\ crawlDepth \in 0..MaxDepth
    /\ queue = <<[url |-> startUrl, depth |-> 0]>>
    /\ visited = {startUrl}
    /\ foundUrls = <<startUrl>>
    /\ qi = 0
    /\ crawlPc = "loop"
    /\ crawlFetched = <<>>
    /\ crawlSawForeign = FALSE
    /\ crawlLast = last
    /\ crawlResult = <<>>

InitCrawl == InitCrawlWith(StartUrls, "off")
InitCrawlTraced == InitCrawlWith({Url("https:", "a.com", "/p")}, "none")

\* The crawls that keep the link graph.
InitCrawlGraph ==
    /\ crawlGraph = [on |-> TRUE, edges |-> {}]
    /\ startUrl \in {Url("https:", "a.com", ""), Url("https:", "a.com", "/p")}
    /\ crawlDepth \in 0..MaxDepth
    /\ queue = <<[url |-> startUrl, depth |-> 0]>>
    /\ visited = {startUrl}
    /\ foundUrls = <<startUrl>>
    /\ qi = 0
    /\ crawlPc = "loop"
    /\ crawlFetched = <<>>
    /\ crawlSawForeign = FALSE
    /\ crawlLast = "off"
    /\ crawlResult = <<>>

\* A slip that forgets i++ on the way to continue.
CrawlSkipStays ==
    /\ crawlPc = "loop" /\ qi < Len(queue)
    /\ SkipExpansion(queue[qi + 1].depth, crawlDepth)
    /\ crawlLast' = LastIteration("skip")
    /\ UNCHANGED <<startUrl, crawlDepth, queue, visited, foundUrls, crawlPc, qi,
                   crawlFetched, crawlSawForeign, crawlResult, crawlGraph>>

\* An iteration whose entry is at the depth limit: continue.
CrawlSkip ==
    /\ crawlPc = "loop" /\ qi < Len(queue)
    /\ SkipExpansion(queue[qi + 1].depth, crawlDepth)
    /\ qi' = qi + 1
    /\ crawlLast' = LastIteration("skip")
    /\ UNCHANGED <<startUrl, crawlDepth, queue, visited, foundUrls, crawlPc,
                   crawlFetched, crawlSawForeign, crawlResult, crawlGraph>>

\* An iteration whose fetch returns a page with the given links.
CrawlFetchOk ==
    /\ crawlPc = "loop" /\ qi < Len(queue)
    /\ ~SkipExpansion(queue[qi + 1].depth, crawlDepth)
    /\ \E links \in LinkLists :
         LET e  == queue[qi + 1]
             st == VisitLinks([visited |-> visited, foundUrls |-> foundUrls,
                               queue |-> queue],
                              links, e.url, e.depth, startUrl)
         IN  /\ visited' = st.visited
             /\ foundUrls' = st.foundUrls
             /\ queue' = st.queue
             /\ crawlFetched' = Append(crawlFetched, e)
             /\ crawlGraph' = GraphWith(links, e.url, startUrl)
             /\ crawlSawForeign' =
                  (crawlSawForeign
                   \/ \E k \in DOMAIN links : IsForeign(links[k], e.url, startUrl))
    /\ qi' = qi + 1
    /\ crawlLast' = LastIteration("ok")
    /\ UNCHANGED <<startUrl, crawlDepth, crawlPc, crawlResult>>

\* A slip that lets the error of one page end the crawl.
CrawlFetchFailAborts ==
    /\ crawlPc = "loop" /\ qi < Len(queue)
    /\ ~SkipExpansion(queue[qi + 1].depth, crawlDepth)
    /\ crawlPc' = "thrown"
    /\ crawlLast' = LastIteration("fail")
    /\ UNCHANGED <<startUrl, crawlDepth, queue, visited, foundUrls, qi,
                   crawlFetched, crawlSawForeign, crawlResult, crawlGraph>>

\* An iteration whose fetch throws: the catch logs and the loop goes on.
CrawlFetchFail ==
    /\ crawlPc = "loop" /\ qi < Len(queue)
    /\ ~SkipExpansion(queue[qi + 1].depth, crawlDepth)
    /\ crawlFetched' = Append(crawlFetched, queue[qi + 1])
    /\ qi' = qi + 1
    /\ crawlLast' = LastIteration("fail")
    /\ UNCHANGED <<startUrl, crawlDepth, queue, visited, foundUrls, crawlPc,
                   crawlSawForeign, crawlResult, crawlGraph>>

\* The loop test fails: return Array.from(foundUrls).
CrawlReturn ==
    /\ crawlPc = "loop" /\ qi >= Len(queue)
    /\ crawlResult' = foundUrls
    /\ crawlPc' = "done"
    /\ UNCHANGED <<startUrl, crawlDepth, queue, visited, foundUrls, qi,
                   crawlFetched, crawlSawForeign, crawlLast, crawlGraph>>

-----------------------------------------------------------------------------
(* fetchAllUrlsFromSitemaps, services/googleService.ts:886-942 *)

MaxEntries == 2
MaxRobotsLines == 2

\* agent.provider and apiKey, the arguments of every service function.
Providers == {"gemini", "openai", "openrouter"}
ApiKeys == {"", "key"}

\* A slip that drops the test of the key.
KeyNeverMissing(apiKey) == FALSE

\* if (!apiKey) throw ...
KeyMissing(apiKey) == apiKey = ""

\* A loc string is a stem followed by its last characters, ext.
Loc(stem, ext) == [stem |-> stem, ext |-> ext]

\* String.prototype.toLowerCase on the tail of a loc.
ToLowerCase(ext) ==
    CASE ext = ".XML"    -> ".xml"
      [] ext = ".Xml.GZ" -> ".xml.gz"
      [] OTHER           -> ext

\* A slip that compares the suffix without lowering the case.
IsSitemapLocCaseSensitive(loc) == loc.ext = ".xml" \/ loc.ext = ".xml.gz"

\* loc.toLowerCase().endsWith('.xml') || loc.toLowerCase().endsWith('.xml.gz')
IsSitemapLoc(loc) ==
    ToLowerCase(loc.ext) = ".xml" \/ ToLowerCase(loc.ext) = ".xml.gz"

DefaultSitemap == Loc("/sitemap", ".xml")

SitemapLocs == { DefaultSitemap, Loc("/idx", ".Xml.GZ") }
PageLocs == { Loc("/p", ""), Loc("/feed", ".xml?v=1") }

\* The items of the array the model backend returns for one sitemap: an
\* item without a loc (null, or an object lacking the key), an object whose
\* loc is not a string, or an object with a loc string.
SitemapItems ==
    { [kind |-> "noloc", loc |-> Loc("", "")],
      [kind |-> "number", loc |-> Loc("", "")] }
    \cup { [kind |-> "loc", loc |-> l] : l \in SitemapLocs \cup PageLocs }

\* parsedData.map(item => ({loc: item?.loc ?? '', ...})): kind "empty" is
\* the loc ''.
EntryOfItem(item) ==
    IF item.kind = "noloc"
    THEN [kind |-> "empty", loc |-> Loc("", "")]
    ELSE item

\* .filter(item => item.loc)
LocTruthy(entry) == entry.kind # "empty"

RECURSIVE MapFilterEntries(_)
MapFilterEntries(items) ==
    IF items = <<>> THEN <<>>
    ELSE LET e == EntryOfItem(Head(items))
         IN  IF LocTruthy(e) THEN <<e>> \o MapFilterEntries(Tail(items))
             ELSE MapFilterEntries(Tail(items))

\* The body of `for (const entry of entries)` for one entry;
\* st = [queue, allEntries, threw, reached].  A loc that is not a string has no
\* toLowerCase: the TypeError ends the loop and is caught by the iteration.
ConsumeEntry(st, entry, vis) ==
    IF st.threw THEN st
    ELSE IF entry.kind = "number" THEN [st EXCEPT !.threw = TRUE]
    ELSE IF IsSitemapLoc(entry.loc)
    THEN IF entry.loc \notin vis
         THEN [st EXCEPT !.queue = Append(@, entry.loc), !.reached = @ + 1]
         ELSE [st EXCEPT !.reached = @ + 1]
    ELSE [st EXCEPT !.allEntries = Append(@, entry), !.reached = @ + 1]

RECURSIVE ConsumeEntries(_, _, _)
ConsumeEntries(st, entries, vis) ==
    IF entries = <<>> THEN st
    ELSE ConsumeEntries(ConsumeEntry(st, Head(entries), vis), Tail(entries), vis)

\* The lines of robots.txt: the text before the first ':' with that colon,
\* and the trimmed text after it.
RobotsLine(prefix, value) == [prefix |-> prefix, value |-> value]
NoValue == Loc("", "")
RobotsLines ==
    { RobotsLine("Sitemap:", DefaultSitemap),
      RobotsLine("sitemap:", Loc("/map", ".XML")),
      RobotsLine("SITEMAP:", NoValue),
      RobotsLine(" Sitemap:", Loc("/idx", ".Xml.GZ")),
      RobotsLine("User-agent:", Loc("*", "")) }

\* A slip that looks for the lower-case prefix only.
IsSitemapLineExact(line) == line.prefix = "sitemap:"

\* line.toLowerCase().startsWith('sitemap:')
LowerPrefix(prefix) ==
    CASE prefix = "Sitemap:"  -> "sitemap:"
      [] prefix = "SITEMAP:"  -> "sitemap:"
      [] prefix = " Sitemap:" -> " sitemap:"
      [] prefix = "User-agent:" -> "user-agent:"
      [] OTHER -> prefix
IsSitemapLine(line) == LowerPrefix(line.prefix) = "sitemap:"

\* The queue after the robots.txt lines were read (lines 896-902).
RECURSIVE SeedFromRobots(_)
SeedFromRobots(lines) ==
    IF lines = <<>> THEN <<>>
    ELSE LET l == Head(lines)
         IN  IF IsSitemapLine(l) /\ l.value # NoValue
             THEN <<l.value>> \o SeedFromRobots(Tail(lines))
             ELSE SeedFromRobots(Tail(lines))

\* if (queue.length === 0) queue.push(`${origin}/sitemap.xml`)
WithDefaultSitemap(q) == IF Len(q) = 0 THEN <<DefaultSitemap>> ELSE q

\* After an iteration: the 1-second delay when more sitemaps are queued.
AfterIteration(q) == IF Len(q) > 0 THEN "delay" ELSE "loop"

NoIteration ==
    [what |-> "none", url |-> NoValue, entries |-> <<>>, reached |-> 0,
     lines |-> <<>>]

InitSitemap ==
    /\ smApiKey \in ApiKeys
    /\ smNet = FALSE
    /\ smQueue = <<>>
    /\ visitedSitemaps = {}
    /\ allEntries = <<>>
    /\ smPc = "called"
    /\ smLast = NoIteration
    /\ smResult = <<>>

\* The test of the key: throw, or go on to robots.txt.
SmEnter ==
    /\ smPc = "called"
    /\ smPc' = IF KeyMissing(smApiKey) THEN "thrown" ELSE "robots"
    /\ UNCHANGED <<smQueue, visitedSitemaps, allEntries, smLast, smResult,
                   smApiKey, smNet>>

\* robots.txt is fetched and read.
SmRobotsOk ==
    /\ smPc = "robots"
    /\ \E lines \in SeqUpTo(RobotsLines, MaxRobotsLines) :
         /\ smQueue' = WithDefaultSitemap(SeedFromRobots(lines))
         /\ smLast' = [NoIteration EXCEPT !.what = "robots", !.lines = lines]
    /\ smPc' = "loop"
    /\ smNet' = TRUE
    /\ UNCHANGED <<visitedSitemaps, allEntries, smResult, smApiKey>>

\* The fetch of robots.txt throws.
SmRobotsFail ==
    /\ smPc = "robots"
    /\ smQueue' = WithDefaultSitemap(<<>>)
    /\ smLast' = [NoIteration EXCEPT !.what = "norobots"]
    /\ smPc' = "loop"
    /\ smNet' = TRUE
    /\ UNCHANGED <<visitedSitemaps, allEntries, smResult, smApiKey>>

\* queue.shift() yields a sitemap already visited: continue.
SmSkipVisited ==
    /\ smPc = "loop" /\ Len(smQueue) > 0
    /\ Head(smQueue) \in visitedSitemaps
    /\ smQueue' = Tail(smQueue)
    /\ smLast' = [what |-> "skip", url |-> Head(smQueue), entries |-> <<>>,
                  reached |-> 0, lines |-> <<>>]
    /\ UNCHANGED <<visitedSitemaps, allEntries, smPc, smResult, smApiKey, smNet>>

\* A slip that fetches the sitemap whether or not it was visited.
SmProcessRevisits ==
    /\ smPc = "loop" /\ Len(smQueue) > 0
    /\ visitedSitemaps' = visitedSitemaps \cup {Head(smQueue)}
    /\ \E items \in SeqUpTo(SitemapItems, MaxEntries) :
         LET entries == MapFilterEntries(items)
             st == ConsumeEntries([queue |-> Tail(smQueue),
                                   allEntries |-> allEntries, threw |-> FALSE,
                                   reached |-> 0],
                                  entries, visitedSitemaps')
         IN  /\ smQueue' = st.queue
             /\ allEntries' = st.allEntries
             /\ smPc' = AfterIteration(st.queue)
             /\ smLast' = [what |-> "parsed", url |-> Head(smQueue),
                           entries |-> entries, reached |-> st.reached,
                           lines |-> <<>>]
    /\ UNCHANGED <<smResult, smApiKey, smNet>>

\* The sitemap is fetched and parsed into entries, which are consumed.
SmProcess ==
    /\ smPc = "loop" /\ Len(smQueue) > 0
    /\ Head(smQueue) \notin visitedSitemaps
    /\ visitedSitemaps' = visitedSitemaps \cup {Head(smQueue)}
    /\ \E items \in SeqUpTo(SitemapItems, MaxEntries) :
         LET entries == MapFilterEntries(items)
             st == ConsumeEntries([queue |-> Tail(smQueue),
                                   allEntries |-> allEntries, threw |-> FALSE,
                                   reached |-> 0],
                                  entries, visitedSitemaps')
         IN  /\ smQueue' = st.queue
             /\ allEntries' = st.allEntries
             /\ smPc' = AfterIteration(st.queue)
             /\ smLast' = [what |-> "parsed", url |-> Head(smQueue),
                           entries |-> entries, reached |-> st.reached,
                           lines |-> <<>>]
    /\ UNCHANGED <<smResult, smApiKey, smNet>>

\* A slip that lets the error of one sitemap end the traversal.
SmFailAborts ==
    /\ smPc = "loop" /\ Len(smQueue) > 0
    /\ Head(smQueue) \notin visitedSitemaps
    /\ smPc' = "thrown"
    /\ UNCHANGED <<smQueue, visitedSitemaps, allEntries, smLast, smResult,
                   smApiKey, smNet>>

\* fetchWithProxy or parseSitemapWithAI throws: the catch logs.
SmFail ==
    /\ smPc = "loop" /\ Len(smQueue) > 0
    /\ Head(smQueue) \notin visitedSitemaps
    /\ visitedSitemaps' = visitedSitemaps \cup {Head(smQueue)}
    /\ smQueue' = Tail(smQueue)
    /\ smPc' = AfterIteration(Tail(smQueue))
    /\ smLast' = [what |-> "failed", url |-> Head(smQueue), entries |-> <<>>,
                  reached |-> 0, lines |-> <<>>]
    /\ UNCHANGED <<allEntries, smResult, smApiKey, smNet>>

\* The 1-second delay ends.
SmDelay ==
    /\ smPc = "delay"
    /\ smPc' = "loop"
    /\ UNCHANGED <<smQueue, visitedSitemaps, allEntries, smLast, smResult,
                   smApiKey, smNet>>

\* The queue is empty: return allEntries.
SmReturn ==
    /\ smPc = "loop" /\ Len(smQueue) = 0
    /\ smResult' = allEntries
    /\ smPc' = "done"
    /\ UNCHANGED <<smQueue, visitedSitemaps, allEntries, smLast, smApiKey, smNet>>

-----------------------------------------------------------------------------
(* Two discovery runs under way together,
   services/googleService.ts:611-665 and 886-942 *)

MaxRunDepth == 1
MaxRunLinks == 1
MaxRunEntries == 2

RunIds == {1, 2}
Origin == Url("https:", "a.com", "")

\* The pages and sitemaps of the site, and what they may hold.
RunPages ==
    { Origin, Url("https:", "a.com", "/p"), Url("https:", "a.com", "/q") }
RunHrefSet == { RelLink("/p", ""), RelLink("/q", "#s") }
RunRobotsLines == { RobotsLine("Sitemap:", Loc("/idx", ".Xml.GZ")) }
RunItems == { [kind |-> "loc", loc |-> l] : l \in SitemapLocs \cup {Loc("/p", "")} }

\* What fetchWithProxy (followed by parseSitemapWithAI, for a sitemap) comes
\* to for one URL: the links, lines or items obtained, or an error thrown.
Fetched(body) == [ok |-> TRUE, body |-> body]
FetchThrew == [ok |-> FALSE, body |-> <<>>]
Outcomes(bodies) == {FetchThrew} \cup {Fetched(b) : b \in bodies}

\* The locals of discoverUrlsToCrawl(seed, depth) when its loop starts.
NewCrawlRun(seed, depth) ==
    [key |-> "key", seed |-> seed, depth |-> depth, pc |-> "loop",
     queue |-> <<[url |-> seed, depth |-> 0]>>, visited |-> {seed},
     found |-> <<seed>>, qi |-> 0, result |-> <<>>]

\* fetchAllUrlsFromSitemaps(url, agent, key) when it is called.
NewSitemapRun(key) ==
    [key |-> key, seed |-> Origin, depth |-> 0, pc |-> "called",
     queue |-> <<>>, visited |-> {},
     found |-> <<>>, qi |-> 0, result |-> <<>>]

InitRuns ==
    /\ runKind \in {"crawl", "sitemap"}
    /\ runsMet = FALSE
    /\ IF runKind = "crawl"
       THEN /\ web \in [pages : [RunPages -> Outcomes(SeqUpTo(RunHrefSet, MaxRunLinks))],
                        robots : {FetchThrew},
                        sitemaps : [SitemapLocs -> {FetchThrew}]]
            /\ \E seed \in {Origin, Url("https:", "a.com", "/p")} :
               \E d1 \in 0..MaxRunDepth, d2 \in 0..MaxRunDepth :
                 runs = <<NewCrawlRun(Origin, d1), NewCrawlRun(seed, d2)>>
       ELSE /\ web \in [pages : [RunPages -> {FetchThrew}],
                        robots : Outcomes(SeqUpTo(RunRobotsLines, MaxRunEntries)),
                        sitemaps : [SitemapLocs ->
                                      Outcomes(SeqUpTo(RunItems, MaxRunEntries))]]
            /\ \E key \in ApiKeys :
                 runs = <<NewSitemapRun("key"), NewSitemapRun(key)>>

\* A slip that keeps the visited set at module level, one for all the runs.
RunVisitedShared(r) == runs[1].visited \cup runs[2].visited

\* The visited set a run consults: the one its own call created
\* (`const visited`, `const visitedSitemaps`).
RunVisited(r) == runs[r].visited

\* Whether a run has gone through an await and has not returned.
UnderWay(run) ==
    /\ run.pc \notin {"done", "thrown"}
    /\ IF runKind = "crawl" THEN run.qi > 0 ELSE run.pc # "called"

\* A step of run r: only its own locals change.
RunStep(r, run) ==
    /\ runs' = [runs EXCEPT ![r] = run]
    /\ runsMet' = (runsMet \/ UnderWay(runs[3 - r]))
    /\ UNCHANGED <<runKind, web>>

\* discoverUrlsToCrawl: an entry at the depth limit.
RunCrawlSkip ==
    \E r \in RunIds :
      /\ runKind = "crawl" /\ runs[r].pc = "loop" /\ runs[r].qi < Len(runs[r].queue)
      /\ SkipExpansion(runs[r].queue[runs[r].qi + 1].depth, runs[r].depth)
      /\ RunStep(r, [runs[r] EXCEPT !.qi = @ + 1])

\* discoverUrlsToCrawl: the fetch of an entry, and its links or its catch.
RunCrawlFetch ==
    \E r \in RunIds :
      /\ runKind = "crawl" /\ runs[r].pc = "loop" /\ runs[r].qi < Len(runs[r].queue)
      /\ ~SkipExpansion(runs[r].queue[runs[r].qi + 1].depth, runs[r].depth)
      /\ LET e  == runs[r].queue[runs[r].qi + 1]
             o  == web.pages[e.url]
             st == VisitLinks([visited |-> RunVisited(r),
                               foundUrls |-> runs[r].found,
                               queue |-> runs[r].queue],
                              o.body, e.url, e.depth, runs[r].seed)
         IN  IF o.ok
             THEN RunStep(r, [runs[r] EXCEPT !.visited = st.visited,
                                             !.found = st.foundUrls,
                                             !.queue = st.queue,
                                             !.qi = @ + 1])
             ELSE RunStep(r, [runs[r] EXCEPT !.qi = @ + 1])

\* discoverUrlsToCrawl: return Array.from(foundUrls).
RunCrawlReturn ==
    \E r \in RunIds :
      /\ runKind = "crawl" /\ runs[r].pc = "loop" /\ runs[r].qi >= Len(runs[r].queue)
      /\ RunStep(r, [runs[r] EXCEPT !.result = runs[r].found, !.pc = "done"])

\* fetchAllUrlsFromSitemaps: the test of the key.
RunSmEnter ==
    \E r \in RunIds :
      /\ runKind = "sitemap" /\ runs[r].pc = "called"
      /\ RunStep(r, [runs[r] EXCEPT
                       !.pc = IF KeyMissing(runs[r].key) THEN "thrown" ELSE "robots"])

\* fetchAllUrlsFromSitemaps: robots.txt, read or not, and the default sitemap.
RunSmRobots ==
    \E r \in RunIds :
      /\ runKind = "sitemap" /\ runs[r].pc = "robots"
      /\ RunStep(r, [runs[r] EXCEPT
                       !.queue = WithDefaultSitemap(
                                   IF web.robots.ok
                                   THEN SeedFromRobots(web.robots.body)
                                   ELSE <<>>),
                       !.pc = "loop"])

\* fetchAllUrlsFromSitemaps: queue.shift() yields a visited sitemap.
RunSmSkipVisited ==
    \E r \in RunIds :
      /\ runKind = "sitemap" /\ runs[r].pc = "loop" /\ Len(runs[r].queue) > 0
      /\ Head(runs[r].queue) \in RunVisited(r)
      /\ RunStep(r, [runs[r] EXCEPT !.queue = Tail(@)])

\* fetchAllUrlsFromSitemaps: one sitemap fetched and parsed, or the catch.
RunSmProcess ==
    \E r \in RunIds :
      /\ runKind = "sitemap" /\ runs[r].pc = "loop" /\ Len(runs[r].queue) > 0
      /\ Head(runs[r].queue) \notin RunVisited(r)
      /\ LET u   == Head(runs[r].queue)
             vis == RunVisited(r) \cup {u}
             o   == web.sitemaps[u]
             st  == ConsumeEntries([queue |-> Tail(runs[r].queue),
                                    allEntries |-> runs[r].found,
                                    threw |-> FALSE, reached |-> 0],
                                   MapFilterEntries(o.body), vis)
         IN  IF o.ok
             THEN RunStep(r, [runs[r] EXCEPT !.visited = vis,
                                             !.queue = st.queue,
                                             !.found = st.allEntries,
                                             !.pc = AfterIteration(st.queue)])
             ELSE RunStep(r, [runs[r] EXCEPT !.visited = vis,
                                             !.queue = Tail(@),
                                             !.pc = AfterIteration(Tail(runs[r].queue))])

\* fetchAllUrlsFromSitemaps: the 1-second delay ends.
RunSmDelay ==
    \E r \in RunIds :
      /\ runKind = "sitemap" /\ runs[r].pc = "delay"
      /\ RunStep(r, [runs[r] EXCEPT !.pc = "loop"])

\* fetchAllUrlsFromSitemaps: return allEntries.
RunSmReturn ==
    \E r \in RunIds :
      /\ runKind = "sitemap" /\ runs[r].pc = "loop" /\ Len(runs[r].queue) = 0
      /\ RunStep(r, [runs[r] EXCEPT !.result = runs[r].found, !.pc = "done"])

-----------------------------------------------------------------------------
(* The model backend, as the services see it *)

\* What a request to the backend comes to:
\*   "reject"  the SDK call or the fetch rejects with Error(msg)
\*   "http"    a non-2xx answer whose JSON body is {error: {message: msg}}
\*   "httpbad" a non-2xx answer whose body is not JSON
\*   "notext"  an answer without text (no candidate, or no choices);
\*             msg says whether the finish reason is SAFETY
\*   "text"    an answer with this text
Reject(msg)  == [kind |-> "reject", msg |-> msg, text |-> <<>>]
HttpErr(msg) == [kind |-> "http", msg |-> msg, text |-> <<>>]
HttpBad      == [kind |-> "httpbad", msg |-> <<>>, text |-> <<>>]
NoText(why)  == [kind |-> "notext", msg |-> <<why>>, text |-> <<>>]
Answer(text) == [kind |-> "text", msg |-> <<>>, text |-> text]

\* The messages a rejection or an error body may carry.
BackendMessages ==
    { <<"429", "Too Many Requests">>, <<"Quota:", "RESOURCE_EXHAUSTED">>,
      <<"You hit the", "rate limit">>, <<"Rate Limit", "reached">>,
      <<"Failed to fetch">>, <<>> }

\* The SDK turns a non-2xx answer into a rejection; the chat-completions
\* endpoints are called with fetch, which hands the answer over.
BackendFailures(provider) ==
    {Reject(m) : m \in BackendMessages}
    \cup {NoText("SAFETY"), NoText("STOP")}
    \cup IF provider = "gemini" THEN {}
         ELSE {HttpErr(m) : m \in BackendMessages} \cup {HttpBad}

ProviderName(provider) ==
    IF provider = "openrouter" THEN "OpenRouter" ELSE "OpenAI"

\* The outcome of a try block: a value, or an error with its message.
Threw(msg) == [threw |-> TRUE, msg |-> msg, val |-> JNull, early |-> FALSE]
Value(val) == [threw |-> FALSE, msg |-> <<>>, val |-> val, early |-> FALSE]
\* A return from inside the try block, with the empty result.
EarlyEmpty == [threw |-> FALSE, msg |-> <<>>, val |-> JNull, early |-> TRUE]

\* JSON.parse(text) as a try outcome.
ParseOrThrow(text) ==
    IF JsonParse(text).ok THEN Value(JsonParse(text).val) ELSE Threw(SyntaxErrorMsg)

-----------------------------------------------------------------------------
(* analyzeRobotsTxt, analyzeAdsTxt: services/googleService.ts:944-1095,   *)
(* and the older analyzeRobotsTxt, unnamed/part_000:360-414               *)

\* The two required top-level keys.
RequiredKeys(kind) ==
    IF kind = "robots" THEN {"rules", "sitemaps"} ELSE {"records", "malformedLines"}

\* { rules: [], sitemaps: [] } and { records: [], malformedLines: [] }:
\* the atoms of these four keys stand for members with an empty list.
EmptyAnalysis(kind) == JObj(RequiredKeys(kind), <<>>)

\* The answers of the backend to an analyzer's prompt.
AnalyzerTexts(kind) ==
    LET ks == IF kind = "robots" THEN <<"rules", "sitemaps">>
              ELSE <<"records", "malformedLines">>
    IN  { <<"{", ks[1], ks[2], "}">>,
          <<"w", "{", ks[1], ks[2], "}", "w">>,
          <<"{", ks[1], "}">>,
          <<"{", "error:", "{", "message=429", "}", "}">>,
          <<"[", "]">>, <<"null">>, <<"w">>, <<>> }

\* The body of the try block of the multi-provider analyzers, from the
\* backend's answer to parsedData.
AnalyzerParseMulti(provider, mo) ==
    IF mo.kind = "reject" THEN Threw(mo.msg)
    ELSE IF provider = "gemini"
    THEN IF mo.kind = "notext" THEN Threw(TypeErrorMsg)
         ELSE IF extractJson(mo.text) = <<>> THEN EarlyEmpty
         ELSE ParseOrThrow(extractJson(mo.text))
    ELSE IF mo.kind \in {"http", "httpbad"}
         THEN Threw(<<ProviderName(provider), "request failed">>)
         ELSE IF mo.kind = "notext" THEN Threw(TypeErrorMsg)
         ELSE ParseOrThrow(mo.text)

\* The body of the try block of the older analyzeRobotsTxt; the backend
\* call itself stands before the try.
AnalyzerParseLegacy(mo) ==
    IF mo.kind = "notext" \/ mo.text = <<>>
    THEN IF mo.kind = "notext" /\ mo.msg = <<"SAFETY">>
         THEN Threw(<<"The AI's response for robots.txt was blocked due to safety concerns.">>)
         ELSE EarlyEmpty
    ELSE IF extractJson(mo.text) = <<>> THEN EarlyEmpty
    ELSE ParseOrThrow(extractJson(mo.text))

TypeName(kind) == IF kind = "robots" THEN "RobotsTxtAnalysis" ELSE "AdsTxtAnalysis"
FileName(kind) == IF kind = "robots" THEN "robots.txt" ELSE "ads.txt"

\* A slip that asks for one of the two keys only.
ValidateAnalysisAnyKey(kind, r) ==
    IF r.threw \/ r.early THEN r
    ELSE IF r.val.t = "null" \/ ~(\E k \in RequiredKeys(kind) : HasKey(r.val, k))
    THEN Threw(<<"Parsed data does not match the expected", TypeName(kind), "structure.">>)
    ELSE r

\* typeof parsedData !== 'object' || parsedData === null || !(k1 in
\* parsedData) || !(k2 in parsedData): throw.
ValidateAnalysis(kind, r) ==
    IF r.threw \/ r.early THEN r
    ELSE IF r.val.t = "null" \/ ~(\A k \in RequiredKeys(kind) : HasKey(r.val, k))
    THEN Threw(<<"Parsed data does not match the expected", TypeName(kind), "structure.">>)
    ELSE r

RateLimitWrapped(kind) ==
    IF kind = "robots"
    THEN <<"API", "rate limit", "exceeded. Please wait a moment and try again. If the problem persists, check your API plan and billing details.">>
    ELSE <<"API", "rate limit", "exceeded. Please wait a moment and try again.">>

\* The catch block: the error thrown to the caller.
AnalyzerRethrow(kind, impl, msg) ==
    IF impl = "multi" /\ IsRateLimitMessage(msg) THEN RateLimitWrapped(kind)
    ELSE <<"Failed to get valid", FileName(kind), "data from the AI. Reason:">> \o msg

\* The analyzer from the backend's answer on: [pc, result, error].
AnalyzerFinish(kind, impl, provider, mo) ==
    IF impl = "legacy" /\ mo.kind = "reject"
    THEN [pc |-> "thrown", result |-> JNull, error |-> mo.msg]
    ELSE LET r == ValidateAnalysis(kind,
                     IF impl = "legacy" THEN AnalyzerParseLegacy(mo)
                     ELSE AnalyzerParseMulti(provider, mo))
         IN  IF r.threw
             THEN [pc |-> "thrown", result |-> JNull,
                   error |-> AnalyzerRethrow(kind, impl, r.msg)]
             ELSE IF r.early
             THEN [pc |-> "returned", result |-> EmptyAnalysis(kind), error |-> <<>>]
             ELSE [pc |-> "returned", result |-> r.val, error |-> <<>>]

AbsentFileAsRobots(kind) == JObj({"rules", "sitemaps"}, <<>>)

\* The value returned when the well-known file cannot be fetched.
AbsentFileResult(kind) == EmptyAnalysis(kind)

\* `${new URL(url).origin}/robots.txt`, `${new URL(url).origin}/ads.txt`
WellKnownUrl(kind) == Url("https:", "a.com", "/" \o FileName(kind))

\* if (!apiKey) throw
ApiKeyRequired(impl, provider) ==
    IF impl = "legacy" THEN <<"Gemini API key is required for robots.txt analysis.">>
    ELSE <<provider, "API key is required.">>

\* The older service has analyzeRobotsTxt only, and one provider.
InitWk ==
    /\ wkKind \in {"robots", "ads"}
    /\ wkImpl \in {"multi", "legacy"}
    /\ wkProvider \in Providers
    /\ wkImpl = "legacy" => wkKind = "robots" /\ wkProvider = "gemini"
    /\ wkApiKey \in ApiKeys
    /\ wkModelCalls = 0
    /\ wkResult = JNull
    /\ wkPc = "called"
    /\ wkError = <<>>
    /\ wkOutcome = Answer(<<>>)
    /\ calls = <<>>

\* The test of the key: throw, or start the fetch of the file.
WkEnter ==
    /\ wkPc = "called"
    /\ IF KeyMissing(wkApiKey)
       THEN /\ wkPc' = "thrown"
            /\ wkError' = ApiKeyRequired(wkImpl, wkProvider)
            /\ calls' = calls
       ELSE /\ wkPc' = "fetching"
            /\ wkError' = wkError
            /\ calls' = <<NewCall(WellKnownUrl(wkKind), DefaultRetries, FALSE)>>
    /\ UNCHANGED <<wkKind, wkImpl, wkProvider, wkApiKey, wkModelCalls, wkResult,
                   wkOutcome>>

\* The steps of the fetch of the file.
WkAttemptOk == wkPc = "fetching" /\ AttemptOk(1) /\ UNCHANGED varsWk
WkAttemptFail == wkPc = "fetching" /\ AttemptFail(1) /\ UNCHANGED varsWk
WkBackoff == wkPc = "fetching" /\ Backoff(1) /\ UNCHANGED varsWk

\* fetchWithProxy threw: the catch returns the empty analysis.
WkFetchFailed ==
    /\ wkPc = "fetching" /\ calls[1].pc = "thrown"
    /\ wkPc' = "returned"
    /\ wkResult' = AbsentFileResult(wkKind)
    /\ UNCHANGED <<wkKind, wkImpl, wkProvider, wkApiKey, wkModelCalls, wkError,
                   wkOutcome, calls>>

\* fetchWithProxy returned the file: the prompt goes to the backend.
WkCallModel ==
    /\ wkPc = "fetching" /\ calls[1].pc = "returned"
    /\ wkPc' = "calling"
    /\ wkModelCalls' = wkModelCalls + 1
    /\ UNCHANGED <<wkKind, wkImpl, wkProvider, wkApiKey, wkResult, wkError,
                   wkOutcome, calls>>

\* The backend answers, or fails.
WkModelResponds ==
    /\ wkPc = "calling"
    /\ \E mo \in BackendFailures(wkProvider)
                 \cup {Answer(t) : t \in AnalyzerTexts(wkKind)} :
         LET f == AnalyzerFinish(wkKind, wkImpl, wkProvider, mo)
         IN  /\ wkOutcome' = mo
             /\ wkPc' = f.pc
             /\ wkResult' = f.result
             /\ wkError' = f.error
    /\ UNCHANGED <<wkKind, wkImpl, wkProvider, wkApiKey, wkModelCalls, calls>>

-----------------------------------------------------------------------------
(* analyzePageBatch: services/googleService.ts:667-809, and the older    *)
(* analyzePageBatch, unnamed/part_000:140-238                             *)

MaxUrls == 2

PageP == Url("https:", "a.com", "/p")
PageS == Url("https:", "a.com", "/status 404")
BatchUrls == {PageP, PageS}

\* The url of an item that has none.
UnknownUrl == Url("", "", "Unknown URL")

\* A placeholder CrawledPage: the fields after the description are the
\* same in every placeholder, and the two lists of link URLs are not set.
Page(url, status, title, description) ==
    [url |-> url, status |-> status, title |-> title, description |-> description,
     h1 |-> "N/A", contentPreview |-> "N/A", internalLinks |-> "0",
     externalLinks |-> "0", metaTags |-> "[]"]

\* parseInt(digits, 10), for the digit words of a message.
IsDigits(w) == \E n \in 0..999 : ToString(n) = w
ParseInt(w) == CHOOSE n \in 0..999 : ToString(n) = w

\* A slip that forgets the message: every failed fetch is a 500.
StatusAlways500(msg) == 500

\* message.match(/status (\d+)/): the first "status" followed by digits.
StatusFromMessage(msg) ==
    LET ks == {k \in 1..(Len(msg) - 1) : msg[k] = "status" /\ IsDigits(msg[k + 1])}
    IN  IF ks = {} THEN 500
        ELSE ParseInt(msg[(CHOOSE k \in ks : \A j \in ks : k <= j) + 1])

\* failedPages.map(...): the placeholder of the call c that threw.
FetchFailedPage(impl, c) ==
    Page(c.url,
         IF impl = "legacy" THEN 500 ELSE StatusFromMessage(FetchErrorMessage(c)),
         "Fetch Failed", FetchErrorMessage(c))

RECURSIVE FailedPages(_, _), ValidUrls(_)
FailedPages(impl, cs) ==
    IF cs = <<>> THEN <<>>
    ELSE IF Head(cs).pc = "thrown"
         THEN <<FetchFailedPage(impl, Head(cs))>> \o FailedPages(impl, Tail(cs))
         ELSE FailedPages(impl, Tail(cs))
ValidUrls(cs) ==
    IF cs = <<>> THEN <<>>
    ELSE IF Head(cs).pc = "returned"
         THEN <<Head(cs).url>> \o ValidUrls(Tail(cs))
         ELSE ValidUrls(Tail(cs))

\* The members of an item that has every field: each with its value, or
\* each null.
ItemText(how) ==
    LET ks == <<"title", "description", "h1", "contentPreview", "internalLinks",
                "externalLinks", "metaTags", "internalLinkUrls", "externalLinkUrls">>
    IN  [k \in 1..Len(ks) |->
            FieldAtom(ks[k], IF how = "null" THEN "null" ELSE SampleValue(ks[k]))]

\* The answers of the backend to the batch prompt.
BatchTexts ==
    { <<"[", "{", "url=p", "title=T", "}", "]">>,
      <<"[", "{", "url=p", "}", "{", "url=s", "}", "]">>,
      <<"[", "{", "url=p", "}", "{", "url=p", "}", "{", "url=s", "}", "]">>,
      <<"[", "]">>,
      <<"[", "{", "url=x", "status=404", "}", "]">>,
      <<"[", "{", "title=T", "}", "]">>,
      <<"[", "null", "]">>,
      <<"[", "{", "url=p">> \o ItemText("sample") \o <<"}", "]">>,
      <<"[", "{", "url=p">> \o ItemText("null") \o <<"}", "]">>,
      <<"w", "[", "{", "url=p", "}", "]", "w">>,
      <<"{", "pages:", "[", "{", "url=p", "}", "]", "}">>,
      <<"{", "error:", "{", "message=429", "}", "}">>,
      <<"{", "url=p", "}">>,
      <<"[", "{", "url=p", "}">>,
      <<"w">>, <<>> }

\* item?.url ?? 'Unknown URL', item?.status ?? 500, item?.title ?? 'N/A'
UrlOfAtom(a) ==
    CASE a = "url=p" -> PageP
      [] a = "url=s" -> PageS
      [] OTHER -> Url("https:", "a.com", "/x")
ItemUrl(item) ==
    IF \E a \in item.atoms : KeyOfAtom(a) = "url"
    THEN UrlOfAtom(CHOOSE a \in item.atoms : KeyOfAtom(a) = "url")
    ELSE UnknownUrl
ItemStatus(item) == IF "status=404" \in item.atoms THEN 404 ELSE 500

\* item?.key: the value of the member, "undefined" when the item is null
\* or has no such member.
ItemValue(item, key) ==
    IF item.t = "obj" /\ FieldAtom(key, SampleValue(key)) \in item.atoms
    THEN SampleValue(key)
    ELSE IF item.t = "obj" /\ FieldAtom(key, "null") \in item.atoms
    THEN "null"
    ELSE "undefined"

\* A slip that lets null through, as a default parameter would.
CoalesceUndefinedOnly(value, default) ==
    IF value = "undefined" THEN default ELSE value

\* value ?? default
Coalesce(value, default) ==
    IF value \in {"null", "undefined"} THEN default ELSE value

DefaultOf(key) ==
    CASE key \in {"title", "description", "h1", "contentPreview"} -> "N/A"
      [] key \in {"internalLinks", "externalLinks"} -> "0"
      [] OTHER -> "[]"
ItemField(item, key) == Coalesce(ItemValue(item, key), DefaultOf(key))
ItemTitle(item) == ItemField(item, "title")

\* The record built from one item of the model's array.
AiPage(item) ==
    [url |-> ItemUrl(item), status |-> ItemStatus(item),
     title |-> ItemTitle(item),
     description |-> <<ItemField(item, "description")>>,
     h1 |-> ItemField(item, "h1"),
     contentPreview |-> ItemField(item, "contentPreview"),
     internalLinks |-> ItemField(item, "internalLinks"),
     externalLinks |-> ItemField(item, "externalLinks"),
     metaTags |-> ItemField(item, "metaTags"),
     internalLinkUrls |-> ItemField(item, "internalLinkUrls"),
     externalLinkUrls |-> ItemField(item, "externalLinkUrls")]

\* parsedData.map(item => ({...}))
AiResults(arr) == [k \in DOMAIN arr.items |-> AiPage(arr.items[k])]

\* An object with a single key whose value is an array becomes that array.
Unwrap(v) ==
    IF v.t = "obj" /\ Cardinality(v.atoms) + Len(v.nested) = 1
    THEN IF Len(v.nested) = 1
         THEN IF v.nested[1].val.t = "arr" THEN v.nested[1].val ELSE v
         ELSE IF v.atoms \subseteq {"rules", "sitemaps", "records", "malformedLines"}
              THEN JArr(<<>>) ELSE v
    ELSE v

\* The provider branch of the try block, up to parsedData.
BatchParseMulti(provider, mo) ==
    IF mo.kind = "reject" THEN Threw(mo.msg)
    ELSE IF provider = "gemini"
    THEN IF mo.kind = "notext" THEN Threw(TypeErrorMsg)
         \* the error thrown for a {"error" ...} answer is caught on the
         \* spot by an empty catch: the answer goes on to extractJson
         ELSE IF extractJson(mo.text) = <<>>
         THEN Threw(<<"AI returned a response without valid JSON content.">>)
         ELSE ParseOrThrow(extractJson(mo.text))
    ELSE IF mo.kind = "http"
         THEN Threw(<<ProviderName(provider), "API Error:">> \o mo.msg)
         ELSE IF mo.kind = "httpbad" THEN Threw(SyntaxErrorMsg)
         ELSE IF mo.kind = "notext" THEN Threw(TypeErrorMsg)
         ELSE LET r == ParseOrThrow(extractJson(mo.text))
              IN  IF r.threw THEN r ELSE Value(Unwrap(r.val))

\* The try block of the older service; the request stands before it.
BatchParseLegacy(mo) ==
    IF mo.kind = "notext" \/ mo.text = <<>>
    THEN IF mo.kind = "notext" /\ mo.msg = <<"SAFETY">>
         THEN Threw(<<"The AI's response was blocked due to safety concerns. This can happen with certain website content.">>)
         ELSE Threw(<<"AI returned an empty or invalid response.">>)
    ELSE IF extractJson(mo.text) = <<>>
    THEN Threw(<<"AI returned a response without valid JSON content.">>)
    ELSE ParseOrThrow(extractJson(mo.text))

\* if (!Array.isArray(parsedData)) throw
RequireArray(r) ==
    IF r.threw \/ r.val.t = "arr" THEN r
    ELSE Threw(<<"Parsed data is not an array.">>)

RateLimitMessage == <<"API", "rate limit", "exceeded. Please wait a moment and try again.">>

\* A slip that lets an empty message through.
ErrorMessageOwn(impl, msg) ==
    IF impl = "multi" /\ IsRateLimitMessage(msg) THEN RateLimitMessage ELSE msg

\* The description of the Analysis Failed placeholders.
ErrorMessage(impl, msg) ==
    IF impl = "multi" /\ IsRateLimitMessage(msg) THEN RateLimitMessage
    ELSE IF msg # <<>> THEN msg
    ELSE IF impl = "multi" THEN <<"Could not parse AI response.">>
    ELSE <<"Could not parse AI response for this batch.">>

\* validPages.map(page => ({...}))
ErrorResults(valid, description) ==
    [k \in DOMAIN valid |-> Page(valid[k], 500, "Analysis Failed", description)]

\* analyzePageBatch from the backend's answer on: [pc, result, error].
BatchFinish(impl, provider, mo, results, valid) ==
    IF impl = "legacy" /\ mo.kind = "reject"
    THEN [pc |-> "thrown", result |-> results, error |-> mo.msg]
    ELSE LET r == RequireArray(IF impl = "legacy" THEN BatchParseLegacy(mo)
                               ELSE BatchParseMulti(provider, mo))
         IN  [pc |-> "returned", error |-> <<>>,
              result |-> results \o
                  IF r.threw THEN ErrorResults(valid, ErrorMessage(impl, r.msg))
                  ELSE AiResults(r.val)]

BatchApiKeyRequired(impl, provider) ==
    IF impl = "legacy" THEN <<"Gemini API key is required for page analysis.">>
    ELSE <<IF provider = "gemini" THEN "Gemini" ELSE "OpenAI", "API key is required.">>

InitBatch ==
    /\ bUrls \in UNION {[1..n -> BatchUrls] : n \in 0..MaxUrls}
    /\ bImpl \in {"multi", "legacy"}
    /\ bProvider \in Providers
    /\ bImpl = "legacy" => bProvider = "gemini"
    /\ bApiKey \in ApiKeys
    /\ bSent = <<>> /\ bModelCalls = 0 /\ bOutcome = Answer(<<>>) /\ bResult = <<>>
    /\ bPc = "called"
    /\ bError = <<>>
    /\ calls = <<>>

\* The test of the key: throw, or start the fetches of all the URLs.
BatchEnter ==
    /\ bPc = "called"
    /\ IF KeyMissing(bApiKey)
       THEN /\ bPc' = "thrown"
            /\ bError' = BatchApiKeyRequired(bImpl, bProvider)
            /\ calls' = calls
       ELSE /\ bPc' = "fetching"
            /\ bError' = bError
            /\ calls' = [k \in DOMAIN bUrls |-> NewCall(bUrls[k], DefaultRetries, FALSE)]
    /\ UNCHANGED <<bUrls, bImpl, bProvider, bApiKey, bSent, bModelCalls,
                   bOutcome, bResult>>

\* The steps of the fetches, which run side by side.
BatchAttemptOk ==
    /\ bPc = "fetching" /\ \E s \in DOMAIN calls : AttemptOk(s)
    /\ UNCHANGED varsBatch
BatchAttemptFail ==
    /\ bPc = "fetching" /\ \E s \in DOMAIN calls : AttemptFail(s)
    /\ UNCHANGED varsBatch
BatchBackoff ==
    /\ bPc = "fetching" /\ \E s \in DOMAIN calls : Backoff(s)
    /\ UNCHANGED varsBatch

\* A slip that goes on as soon as one fetch has settled.
BatchSettleEarly ==
    /\ bPc = "fetching"
    /\ calls = <<>> \/ \E s \in DOMAIN calls : calls[s].pc \in {"returned", "thrown"}
    /\ bResult' = FailedPages(bImpl, calls)
    /\ bSent' = ValidUrls(calls)
    /\ IF ValidUrls(calls) = <<>>
       THEN bPc' = "returned" /\ bModelCalls' = bModelCalls
       ELSE bPc' = "calling" /\ bModelCalls' = bModelCalls + 1
    /\ UNCHANGED <<bUrls, bImpl, bProvider, bApiKey, bOutcome, bError, calls>>

\* Promise.all settles: the placeholders of the failed pages, then either
\* the return (no page to analyze) or the request to the backend.
BatchSettle ==
    /\ bPc = "fetching"
    /\ \A s \in DOMAIN calls : calls[s].pc \in {"returned", "thrown"}
    /\ bResult' = FailedPages(bImpl, calls)
    /\ bSent' = ValidUrls(calls)
    /\ IF ValidUrls(calls) = <<>>
       THEN bPc' = "returned" /\ bModelCalls' = bModelCalls
       ELSE bPc' = "calling" /\ bModelCalls' = bModelCalls + 1
    /\ UNCHANGED <<bUrls, bImpl, bProvider, bApiKey, bOutcome, bError, calls>>

\* The backend answers, or fails.
BatchModelResponds ==
    /\ bPc = "calling"
    /\ \E mo \in BackendFailures(bProvider) \cup {Answer(t) : t \in BatchTexts} :
         LET f == BatchFinish(bImpl, bProvider, mo, bResult, bSent)
         IN  /\ bOutcome' = mo
             /\ bPc' = f.pc
             /\ bResult' = f.result
             /\ bError' = f.error
    /\ UNCHANGED <<bUrls, bImpl, bProvider, bApiKey, bSent, bModelCalls, calls>>

-----------------------------------------------------------------------------
(* handleAnalysis, components/Auditor.tsx:131-249, with the onSaveResults *)
(* it is given, handleSaveAuditResults, unnamed/part_009:78-91            *)

MaxAuditUrls == 4
MaxSitemapEntries == 2
ANALYSIS_BATCH_SIZE == 3

Modes == {"crawl", "sitemap", "robots", "ads"}

\* What the run finds when it looks for its agent and its key:
\*   "noagent"  selectedAgentId is unset: return without a word
\*   "badagent" no agent has the selected id
\*   "own"      the user has a key for the provider
\*   "shared"   only the default key exists, and the plan has not expired
\*   "expired"  only the default key exists, and the plan has expired
\*   "nokey"    neither key exists
Preconditions == {"noagent", "badagent", "own", "shared", "expired", "nokey"}

\* The error the precondition sets, "" when it sets none.
PreconditionError(pre) ==
    CASE pre = "badagent" -> "Please select a valid AI Agent."
      [] pre = "expired"  -> "Your trial has expired."
      [] pre = "nokey"    -> "No personal or default API key found."
      [] OTHER            -> ""

InitAudit ==
    /\ hMode \in Modes
    /\ hUrlModified \in BOOLEAN
    /\ hPre \in Preconditions
    /\ hPc = "called"
    /\ hError \in {"", "An earlier error."}
    /\ hViewing \in {"none", "cached"}
    /\ hSaved = FALSE
    /\ hUrls = 0 /\ hI = 0 /\ hCrawled = 0 /\ hEntries = -1
    /\ hBatches = <<>>

\* Lines 132-175: the preconditions, then the reset of the view.
AuditEnter ==
    /\ hPc = "called"
    /\ IF hPre \in {"own", "shared"}
       THEN hPc' = "service" /\ hError' = "" /\ hViewing' = "none"
       ELSE /\ hPc' = "rejected"
            /\ hError' = IF hPre = "noagent" THEN hError ELSE PreconditionError(hPre)
            /\ hViewing' = hViewing
    /\ UNCHANGED <<hMode, hUrlModified, hPre, hSaved, hUrls, hI, hCrawled, hEntries, hBatches>>

\* The catch and the finally: the error is set and the run ends.
AuditFails(message) ==
    /\ hPc' = "done"
    /\ hError' = message

\* The snapshot is built: shown as a transient audit when the URL was
\* edited, else handed to onSaveResults.
AfterService == IF hUrlModified THEN "done" ELSE "saving"
ViewAfterService == IF hUrlModified THEN "transient" ELSE hViewing

\* Sitemap mode: fetchAllUrlsFromSitemaps throws, or returns n entries.
AuditSitemap ==
    /\ hPc = "service" /\ hMode = "sitemap"
    /\ \/ /\ AuditFails("invalid URL")
          /\ UNCHANGED <<hViewing, hEntries>>
       \/ \E n \in 0..MaxSitemapEntries :
            /\ hEntries' = n
            /\ IF n = 0
               THEN AuditFails("The AI could not find or parse any sitemaps.")
                    /\ hViewing' = hViewing
               ELSE hPc' = AfterService /\ hViewing' = ViewAfterService
                    /\ hError' = hError
    /\ UNCHANGED <<hMode, hUrlModified, hPre, hSaved, hUrls, hI, hCrawled, hBatches>>

\* Robots and ads mode: the analyzer throws, or returns its analysis.
AuditWellKnown ==
    /\ hPc = "service" /\ hMode \in {"robots", "ads"}
    /\ \/ AuditFails("Failed to get valid data from the AI.")
          /\ hViewing' = hViewing
       \/ hPc' = AfterService /\ hViewing' = ViewAfterService /\ hError' = hError
    /\ UNCHANGED <<hMode, hUrlModified, hPre, hSaved, hUrls, hI, hCrawled, hEntries, hBatches>>

\* Crawl mode: discoverUrlsToCrawl throws, or returns n URLs.
AuditDiscover ==
    /\ hPc = "service" /\ hMode = "crawl"
    /\ \/ /\ AuditFails("invalid URL")
          /\ hUrls' = hUrls
       \/ \E n \in 0..MaxAuditUrls :
            /\ hUrls' = n
            /\ IF n = 0
               THEN AuditFails("Could not find any internal URLs.")
               ELSE hPc' = "batches" /\ hError' = hError
    /\ UNCHANGED <<hMode, hUrlModified, hPre, hSaved, hViewing, hI, hCrawled, hEntries, hBatches>>

\* allUrls.slice(i, i + ANALYSIS_BATCH_SIZE).length
BatchLength(i, n) == Min2(i + ANALYSIS_BATCH_SIZE, n) - i

\* A slip that lets a failed batch end the run.
AuditBatchAborts ==
    /\ hPc = "batches" /\ hI < hUrls
    /\ \E failed \in BOOLEAN, out \in 0..(BatchLength(hI, hUrls) + 1) :
         /\ hBatches' = Append(hBatches, [first |-> hI + 1,
                                          size |-> BatchLength(hI, hUrls),
                                          failed |-> failed, out |-> out])
         /\ IF failed
            THEN hPc' = "done" /\ hError' = "Analysis Failed" /\ UNCHANGED <<hCrawled, hI>>
            ELSE /\ hCrawled' = hCrawled + out
                 /\ hI' = hI + ANALYSIS_BATCH_SIZE
                 /\ UNCHANGED <<hPc, hError>>
    /\ UNCHANGED <<hMode, hUrlModified, hPre, hViewing, hSaved, hUrls, hEntries>>

\* One iteration of the batch loop: analyzePageBatch gets the slice and
\* returns its records, placeholders when its model call failed, and they
\* are appended.  The number of records is the model's to choose.
AuditBatch ==
    /\ hPc = "batches" /\ hI < hUrls
    /\ \E failed \in BOOLEAN, out \in 0..(BatchLength(hI, hUrls) + 1) :
         /\ failed => out = BatchLength(hI, hUrls)
         /\ hBatches' = Append(hBatches, [first |-> hI + 1,
                                          size |-> BatchLength(hI, hUrls),
                                          failed |-> failed, out |-> out])
         /\ hCrawled' = hCrawled + out
    /\ hI' = hI + ANALYSIS_BATCH_SIZE
    /\ UNCHANGED <<hMode, hUrlModified, hPre, hPc, hError, hViewing, hSaved,
                   hUrls, hEntries>>

\* The loop test fails: on to the snapshot.
AuditBatchesDone ==
    /\ hPc = "batches" /\ hI >= hUrls
    /\ hPc' = AfterService
    /\ hViewing' = ViewAfterService
    /\ UNCHANGED <<hMode, hUrlModified, hPre, hError, hSaved, hUrls, hI,
                   hCrawled, hEntries, hBatches>>

\* handleSaveAuditResults: the insert yields the new record, which becomes
\* the cached and viewed audit, or an error, which is logged.
AuditSave ==
    /\ hPc = "saving"
    /\ \E inserted \in BOOLEAN :
         /\ hSaved' = inserted
         /\ hViewing' = IF inserted THEN "saved" ELSE hViewing
    /\ hPc' = "done"
    /\ UNCHANGED <<hMode, hUrlModified, hPre, hError, hUrls, hI, hCrawled, hEntries, hBatches>>

-----------------------------------------------------------------------------
(* Specifications: one per machine; the other machines stay idle. *)

vars == <<varsSummary, varsFetch, varsCrawl, varsSitemap, varsWk, varsBatch,
         varsAudit,
         varsExtract,
         varsRuns>>

IdleSummary == pages = <<>> /\ acc = ZeroSummary /\ sIdx = 0
IdleFetch   == calls = <<>>
IdleCrawl ==
    /\ startUrl = Url("", "", "") /\ crawlDepth = 0 /\ queue = <<>>
    /\ visited = {} /\ foundUrls = <<>> /\ qi = 0 /\ crawlPc = "idle"
    /\ crawlFetched = <<>> /\ crawlSawForeign = FALSE /\ crawlResult = <<>>
    /\ crawlLast = "off" /\ crawlGraph = [on |-> FALSE, edges |-> {}]
IdleSitemap ==
    /\ smQueue = <<>> /\ visitedSitemaps = {} /\ allEntries = <<>>
    /\ smPc = "idle" /\ smLast = NoIteration /\ smResult = <<>>
    /\ smApiKey = "" /\ smNet = FALSE

IdleWk ==
    /\ wkKind = "none" /\ wkImpl = "none" /\ wkProvider = "none" /\ wkApiKey = ""
    /\ wkPc = "idle" /\ wkModelCalls = 0 /\ wkResult = JNull /\ wkError = <<>>
    /\ wkOutcome = Answer(<<>>)

IdleBatch ==
    /\ bUrls = <<>> /\ bImpl = "none" /\ bProvider = "none" /\ bApiKey = ""
    /\ bPc = "idle" /\ bSent = <<>> /\ bModelCalls = 0 /\ bOutcome = Answer(<<>>)
    /\ bResult = <<>> /\ bError = <<>>

IdleExtract == exText = <<>> /\ exPc = "idle" /\ exResult = <<>>
IdleRuns == runKind = "none" /\ web = <<>> /\ runs = <<>> /\ runsMet = FALSE

IdleAudit ==
    /\ hMode = "none" /\ hUrlModified = FALSE /\ hPre = "none" /\ hPc = "idle"
    /\ hError = "" /\ hViewing = "none" /\ hSaved = FALSE
    /\ hUrls = 0 /\ hI = 0 /\ hCrawled = 0 /\ hEntries = -1
    /\ hBatches = <<>>

\* calculateCrawlSummary on every list of up to MaxPages pages.
NextSummary ==
    ReducePage /\ UNCHANGED <<varsFetch, varsCrawl, varsSitemap, varsWk, varsBatch, varsAudit, varsExtract, varsRuns>>
StartSummary == InitSummary /\ IdleFetch /\ IdleCrawl /\ IdleSitemap /\ IdleWk /\ IdleBatch /\ IdleAudit /\ IdleExtract /\ IdleRuns
SpecSummary == StartSummary /\ [][NextSummary]_vars

\* One call of fetchWithProxy(url, retries).
InitFetch ==
    \E u \in StartUrls, r \in 0..MaxRetries : calls = <<NewCall(u, r, TRUE)>>
NextFetch ==
    \/ AttemptOk(1) /\ UNCHANGED <<varsSummary, varsCrawl, varsSitemap, varsWk, varsBatch, varsAudit, varsExtract, varsRuns>>
    \/ AttemptFail(1) /\ UNCHANGED <<varsSummary, varsCrawl, varsSitemap, varsWk, varsBatch, varsAudit, varsExtract, varsRuns>>
    \/ Backoff(1) /\ UNCHANGED <<varsSummary, varsCrawl, varsSitemap, varsWk, varsBatch, varsAudit, varsExtract, varsRuns>>
StartFetch == InitFetch /\ IdleSummary /\ IdleCrawl /\ IdleSitemap /\ IdleWk /\ IdleBatch /\ IdleAudit /\ IdleExtract /\ IdleRuns
SpecFetch == StartFetch /\ [][NextFetch]_vars

\* One run of discoverUrlsToCrawl(startUrl, crawlDepth).
NextCrawl ==
    \/ CrawlSkip /\ UNCHANGED <<varsSummary, varsFetch, varsSitemap, varsWk, varsBatch, varsAudit, varsExtract, varsRuns>>
    \/ CrawlFetchOk /\ UNCHANGED <<varsSummary, varsFetch, varsSitemap, varsWk, varsBatch, varsAudit, varsExtract, varsRuns>>
    \/ CrawlFetchFail /\ UNCHANGED <<varsSummary, varsFetch, varsSitemap, varsWk, varsBatch, varsAudit, varsExtract, varsRuns>>
    \/ CrawlReturn /\ UNCHANGED <<varsSummary, varsFetch, varsSitemap, varsWk, varsBatch, varsAudit, varsExtract, varsRuns>>
StartCrawl == InitCrawl /\ IdleSummary /\ IdleFetch /\ IdleSitemap /\ IdleWk /\ IdleBatch /\ IdleAudit /\ IdleExtract /\ IdleRuns
SpecCrawl == StartCrawl /\ [][NextCrawl]_vars
\* The same crawl from one seed, with the history of its iterations.
StartCrawlGraph == InitCrawlGraph /\ IdleSummary /\ IdleFetch /\ IdleSitemap /\ IdleWk /\ IdleBatch /\ IdleAudit /\ IdleExtract /\ IdleRuns
SpecCrawlGraph == StartCrawlGraph /\ [][NextCrawl]_vars

\* The crawl, whose loop always goes on: each fetch ends, by an answer or
\* by the last retry, and nothing else is awaited.
SpecCrawlFair == StartCrawlGraph /\ [][NextCrawl]_vars /\ WF_vars(NextCrawl)

StartCrawlTraced == InitCrawlTraced /\ IdleSummary /\ IdleFetch /\ IdleSitemap /\ IdleWk /\ IdleBatch /\ IdleAudit /\ IdleExtract /\ IdleRuns
SpecCrawlTraced == StartCrawlTraced /\ [][NextCrawl]_vars

\* One run of fetchAllUrlsFromSitemaps.
NextSitemap ==
    \/ SmEnter /\ UNCHANGED <<varsSummary, varsFetch, varsCrawl, varsWk, varsBatch, varsAudit, varsExtract, varsRuns>>
    \/ SmRobotsOk /\ UNCHANGED <<varsSummary, varsFetch, varsCrawl, varsWk, varsBatch, varsAudit, varsExtract, varsRuns>>
    \/ SmRobotsFail /\ UNCHANGED <<varsSummary, varsFetch, varsCrawl, varsWk, varsBatch, varsAudit, varsExtract, varsRuns>>
    \/ SmSkipVisited /\ UNCHANGED <<varsSummary, varsFetch, varsCrawl, varsWk, varsBatch, varsAudit, varsExtract, varsRuns>>
    \/ SmProcess /\ UNCHANGED <<varsSummary, varsFetch, varsCrawl, varsWk, varsBatch, varsAudit, varsExtract, varsRuns>>
    \/ SmFail /\ UNCHANGED <<varsSummary, varsFetch, varsCrawl, varsWk, varsBatch, varsAudit, varsExtract, varsRuns>>
    \/ SmDelay /\ UNCHANGED <<varsSummary, varsFetch, varsCrawl, varsWk, varsBatch, varsAudit, varsExtract, varsRuns>>
    \/ SmReturn /\ UNCHANGED <<varsSummary, varsFetch, varsCrawl, varsWk, varsBatch, varsAudit, varsExtract, varsRuns>>
StartSitemap == InitSitemap /\ IdleSummary /\ IdleFetch /\ IdleCrawl /\ IdleWk /\ IdleBatch /\ IdleAudit /\ IdleExtract /\ IdleRuns
SpecSitemap == StartSitemap /\ [][NextSitemap]_vars

\* One call of analyzeRobotsTxt or analyzeAdsTxt.
NextWk ==
    \/ WkEnter /\ UNCHANGED <<varsSummary, varsCrawl, varsSitemap, varsBatch, varsAudit, varsExtract, varsRuns>>
    \/ WkAttemptOk /\ UNCHANGED <<varsSummary, varsCrawl, varsSitemap, varsBatch, varsAudit, varsExtract, varsRuns>>
    \/ WkAttemptFail /\ UNCHANGED <<varsSummary, varsCrawl, varsSitemap, varsBatch, varsAudit, varsExtract, varsRuns>>
    \/ WkBackoff /\ UNCHANGED <<varsSummary, varsCrawl, varsSitemap, varsBatch, varsAudit, varsExtract, varsRuns>>
    \/ WkFetchFailed /\ UNCHANGED <<varsSummary, varsCrawl, varsSitemap, varsBatch, varsAudit, varsExtract, varsRuns>>
    \/ WkCallModel /\ UNCHANGED <<varsSummary, varsCrawl, varsSitemap, varsBatch, varsAudit, varsExtract, varsRuns>>
    \/ WkModelResponds /\ UNCHANGED <<varsSummary, varsCrawl, varsSitemap, varsBatch, varsAudit, varsExtract, varsRuns>>
StartWk == InitWk /\ IdleSummary /\ IdleCrawl /\ IdleSitemap /\ IdleBatch /\ IdleAudit /\ IdleExtract /\ IdleRuns
SpecWk == StartWk /\ [][NextWk]_vars

\* One call of analyzePageBatch.
NextBatch ==
    \/ BatchEnter /\ UNCHANGED <<varsSummary, varsCrawl, varsSitemap, varsWk, varsAudit, varsExtract, varsRuns>>
    \/ BatchAttemptOk /\ UNCHANGED <<varsSummary, varsCrawl, varsSitemap, varsWk, varsAudit, varsExtract, varsRuns>>
    \/ BatchAttemptFail /\ UNCHANGED <<varsSummary, varsCrawl, varsSitemap, varsWk, varsAudit, varsExtract, varsRuns>>
    \/ BatchBackoff /\ UNCHANGED <<varsSummary, varsCrawl, varsSitemap, varsWk, varsAudit, varsExtract, varsRuns>>
    \/ BatchSettle /\ UNCHANGED <<varsSummary, varsCrawl, varsSitemap, varsWk, varsAudit, varsExtract, varsRuns>>
    \/ BatchModelResponds /\ UNCHANGED <<varsSummary, varsCrawl, varsSitemap, varsWk, varsAudit, varsExtract, varsRuns>>
StartBatch == InitBatch /\ IdleSummary /\ IdleCrawl /\ IdleSitemap /\ IdleWk /\ IdleAudit /\ IdleExtract /\ IdleRuns
SpecBatch == StartBatch /\ [][NextBatch]_vars

\* One call of extractJson.
NextExtract ==
    \/ ExtractJsonCall /\ UNCHANGED <<varsSummary, varsFetch, varsCrawl, varsSitemap, varsWk, varsBatch, varsAudit, varsRuns>>
StartExtract == InitExtract /\ IdleSummary /\ IdleFetch /\ IdleCrawl /\ IdleSitemap /\ IdleWk /\ IdleBatch /\ IdleAudit /\ IdleRuns
SpecExtract == StartExtract /\ [][NextExtract]_vars

\* Two discovery runs, one step of one run at a time.
NextRuns ==
    \/ RunCrawlSkip /\ UNCHANGED <<varsSummary, varsFetch, varsCrawl, varsSitemap, varsWk, varsBatch, varsAudit, varsExtract>>
    \/ RunCrawlFetch /\ UNCHANGED <<varsSummary, varsFetch, varsCrawl, varsSitemap, varsWk, varsBatch, varsAudit, varsExtract>>
    \/ RunCrawlReturn /\ UNCHANGED <<varsSummary, varsFetch, varsCrawl, varsSitemap, varsWk, varsBatch, varsAudit, varsExtract>>
    \/ RunSmEnter /\ UNCHANGED <<varsSummary, varsFetch, varsCrawl, varsSitemap, varsWk, varsBatch, varsAudit, varsExtract>>
    \/ RunSmRobots /\ UNCHANGED <<varsSummary, varsFetch, varsCrawl, varsSitemap, varsWk, varsBatch, varsAudit, varsExtract>>
    \/ RunSmSkipVisited /\ UNCHANGED <<varsSummary, varsFetch, varsCrawl, varsSitemap, varsWk, varsBatch, varsAudit, varsExtract>>
    \/ RunSmProcess /\ UNCHANGED <<varsSummary, varsFetch, varsCrawl, varsSitemap, varsWk, varsBatch, varsAudit, varsExtract>>
    \/ RunSmDelay /\ UNCHANGED <<varsSummary, varsFetch, varsCrawl, varsSitemap, varsWk, varsBatch, varsAudit, varsExtract>>
    \/ RunSmReturn /\ UNCHANGED <<varsSummary, varsFetch, varsCrawl, varsSitemap, varsWk, varsBatch, varsAudit, varsExtract>>
StartRuns == InitRuns /\ IdleSummary /\ IdleFetch /\ IdleCrawl /\ IdleSitemap /\ IdleWk /\ IdleBatch /\ IdleAudit /\ IdleExtract
SpecRuns == StartRuns /\ [][NextRuns]_vars

\* One run of handleAnalysis.
NextAudit ==
    \/ AuditEnter /\ UNCHANGED <<varsSummary, varsFetch, varsCrawl, varsSitemap, varsWk, varsBatch, varsExtract, varsRuns>>
    \/ AuditSitemap /\ UNCHANGED <<varsSummary, varsFetch, varsCrawl, varsSitemap, varsWk, varsBatch, varsExtract, varsRuns>>
    \/ AuditWellKnown /\ UNCHANGED <<varsSummary, varsFetch, varsCrawl, varsSitemap, varsWk, varsBatch, varsExtract, varsRuns>>
    \/ AuditDiscover /\ UNCHANGED <<varsSummary, varsFetch, varsCrawl, varsSitemap, varsWk, varsBatch, varsExtract, varsRuns>>
    \/ AuditBatch /\ UNCHANGED <<varsSummary, varsFetch, varsCrawl, varsSitemap, varsWk, varsBatch, varsExtract, varsRuns>>
    \/ AuditBatchesDone /\ UNCHANGED <<varsSummary, varsFetch, varsCrawl, varsSitemap, varsWk, varsBatch, varsExtract, varsRuns>>
    \/ AuditSave /\ UNCHANGED <<varsSummary, varsFetch, varsCrawl, varsSitemap, varsWk, varsBatch, varsExtract, varsRuns>>
StartAudit == InitAudit /\ IdleSummary /\ IdleFetch /\ IdleCrawl /\ IdleSitemap /\ IdleWk /\ IdleBatch /\ IdleExtract /\ IdleRuns
SpecAudit == StartAudit /\ [][NextAudit]_vars

\* One call of any of the service functions that take an API key.
NextService ==
    \/ NextBatch
    \/ NextSitemap
    \/ NextWk
StartService == StartBatch \/ StartSitemap \/ StartWk
SpecService == StartService /\ [][NextService]_vars

-----------------------------------------------------------------------------
(* Properties *)

\* C5: discoverUrlsToCrawl never adds to its result, and never fetches, a
\* URL whose hostname differs from the hostname of startUrl, whatever links
\* the fetched pages contain.
C5_SameHostOnly ==
    crawlPc \in {"loop", "done"} =>
        /\ \A k \in DOMAIN foundUrls : Hostname(foundUrls[k]) = Hostname(startUrl)
        /\ \A k \in DOMAIN queue : Hostname(queue[k].url) = Hostname(startUrl)
        /\ \A k \in DOMAIN crawlFetched :
              Hostname(crawlFetched[k].url) = Hostname(startUrl)
        /\ \A k \in DOMAIN crawlResult : Hostname(crawlResult[k]) = Hostname(startUrl)

\* A finished crawl that followed links and met a link to another host.
C5_Witness ==
    crawlPc = "done" /\ crawlSawForeign /\ Len(crawlResult) > 1

\* C6: every queue entry has a depth in 0..crawlDepth; a page is fetched
\* only at a depth below crawlDepth; entries at depth crawlDepth stay in
\* the result and are never fetched; with crawlDepth = 0 nothing is
\* fetched and the result is exactly the seed.
C6_DepthLimit ==
    crawlPc \in {"loop", "done"} =>
        /\ \A k \in DOMAIN queue :
              /\ queue[k].depth >= 0 /\ queue[k].depth <= crawlDepth
              /\ queue[k].url \in Range(foundUrls)
              /\ queue[k].depth = crawlDepth =>
                    \A f \in DOMAIN crawlFetched : crawlFetched[f] # queue[k]
        /\ \A f \in DOMAIN crawlFetched : crawlFetched[f].depth < crawlDepth
        /\ crawlPc = "done" =>
              \A k \in DOMAIN queue : queue[k].url \in Range(crawlResult)
        /\ crawlDepth = 0 =>
              /\ crawlFetched = <<>>
              /\ crawlPc = "done" => crawlResult = <<startUrl>>

\* A finished crawl that fetched a page and left an entry at the depth
\* limit unexpanded.
C6_Witness ==
    /\ crawlPc = "done" /\ crawlDepth >= 1 /\ Len(crawlFetched) >= 1
    /\ \E k \in DOMAIN queue : queue[k].depth = crawlDepth

\* A loc that, lowercased, ends in ".xml" or ".xml.gz".
EndsInXml(loc) == ToLowerCase(loc.ext) \in {".xml", ".xml.gz"}

\* The loc values of the last parsed sitemap that the loop reached and
\* that name a sitemap.
ReachedSitemapLocs ==
    {smLast.entries[k].loc : k \in {j \in 1..smLast.reached :
                                      EndsInXml(smLast.entries[j].loc)}}

\* C7 as stated: no entry of the result ends in .xml or .xml.gz, and every
\* such parsed entry is enqueued as a sitemap to traverse.
C7_AllSitemapLocsEnqueued ==
    /\ \A k \in DOMAIN allEntries : ~EndsInXml(allEntries[k].loc)
    /\ smLast.what = "parsed" =>
          \A l \in ReachedSitemapLocs : l \in Range(smQueue)

\* C7 amended: no entry of the accumulated or returned list ends in .xml
\* or .xml.gz; every such entry the loop reaches is put on the queue
\* unless its URL is already in the visited set, and is not appended.
C7_NoSitemapLocInResult ==
    /\ \A k \in DOMAIN allEntries : ~EndsInXml(allEntries[k].loc)
    /\ \A k \in DOMAIN smResult : ~EndsInXml(smResult[k].loc)
    /\ smLast.what = "parsed" =>
          \A l \in ReachedSitemapLocs :
              l \in Range(smQueue) \/ l \in visitedSitemaps

\* A finished traversal whose last parsed sitemap listed both a page and a
\* nested sitemap written in upper case.
C7_Witness ==
    /\ smPc = "done" /\ Len(smResult) > 0
    /\ smLast.what = "parsed"
    /\ \E k \in 1..smLast.reached :
          /\ EndsInXml(smLast.entries[k].loc)
          /\ smLast.entries[k].loc.ext # ToLowerCase(smLast.entries[k].loc.ext)

\* Events of one kind in the log of the call.
EventsOf(c, e) == {k \in DOMAIN c.events : c.events[k].e = e}

\* C8: at most `retries` attempts; a successful attempt ends the call with
\* its body; a failed attempt that is not the last is followed by a wait
\* of 500 ms times the attempt number and then the next attempt; the call
\* fails only after exactly `retries` failed attempts, with no wait after
\* the last one.
C8_RetryDiscipline ==
    \A s \in DOMAIN calls :
        LET c == calls[s]
            n == Len(c.events)
        IN  /\ c.attempts <= c.retries
            /\ c.attempts = Cardinality(EventsOf(c, "ok") \cup EventsOf(c, "fail"))
            /\ \A k \in EventsOf(c, "ok") :
                  k = n /\ c.pc = "returned" /\ c.result = c.events[k].body
            /\ c.pc = "returned" => n > 0 /\ c.events[n].e = "ok"
            /\ \A k \in EventsOf(c, "fail") :
                  /\ k < n =>
                        /\ c.events[k].n < c.retries
                        /\ c.events[k + 1].e = "wait"
                        /\ c.events[k + 1].n = BackoffUnit * c.events[k].n
                  /\ k = n => c.pc = IF c.events[k].n = c.retries
                                      THEN "thrown" ELSE "backoff"
            /\ \A k \in EventsOf(c, "wait") :
                  /\ k > 1 /\ c.events[k - 1].e = "fail"
                  /\ k = n => c.pc = "attempt"
                  /\ k < n => /\ c.events[k + 1].e \in {"ok", "fail"}
                               /\ c.events[k + 1].n = c.events[k - 1].n + 1
            /\ (n > 0 /\ c.events[1].e # "wait") => c.events[1].n = 1
            /\ c.pc = "thrown" =>
                  /\ Cardinality(EventsOf(c, "fail")) = c.retries
                  /\ EventsOf(c, "ok") = {}
                  /\ n > 0 => c.events[n].e = "fail"

\* A call with the default three retries whose first two attempts failed,
\* each followed by its wait, and whose third returned.
C8_Witness ==
    \E s \in DOMAIN calls :
        /\ calls[s].retries = DefaultRetries
        /\ calls[s].pc = "returned" /\ calls[s].attempts = 3
        /\ Cardinality(EventsOf(calls[s], "wait")) = 2

\* C10 as stated: the four buckets add up to totalPages, which is the
\* number of pages.
C10_BucketsCoverTotal ==
    SummaryDone =>
        /\ acc.totalPages = Len(pages)
        /\ acc.healthyPages + acc.redirects + acc.clientErrors + acc.serverErrors
              = acc.totalPages
        /\ acc = calculateCrawlSummary(pages)

\* C9: once the fetch of the well-known file has failed, the analyzer has
\* sent nothing to the model backend and raises nothing, and what it returns
\* is {records: [], malformedLines: []} for ads.txt and
\* {rules: [], sitemaps: []} for robots.txt.
C9_AbsentFileIsEmpty ==
    (wkPc # "idle" /\ calls # <<>> /\ calls[1].pc = "thrown") =>
        /\ wkModelCalls = 0
        /\ wkPc \in {"fetching", "returned"}
        /\ wkError = <<>>
        /\ wkPc = "returned" =>
              wkResult = [t |-> "obj", items |-> <<>>, nested |-> <<>>,
                          atoms |-> IF wkKind = "ads"
                                    THEN {"records", "malformedLines"}
                                    ELSE {"rules", "sitemaps"}]

C9_Witness ==
    /\ wkPc = "returned" /\ wkKind = "ads" /\ wkProvider = "openai"
    /\ calls # <<>> /\ calls[1].pc = "thrown" /\ calls[1].attempts = DefaultRetries

\* The slots of the batch whose fetch threw, and the k-th of a set of slots.
FailedSlots == {s \in DOMAIN calls : calls[s].pc = "thrown"}
NthSlot(S, k) == CHOOSE s \in S : Cardinality({j \in S : j < s}) = k - 1

\* C1: a call of analyzePageBatch with a non-empty key returns as many
\* records as it was given URLs, and the set of their url fields is the set
\* of the URLs given, whatever the fetches and the backend do.
C1_OneResultPerUrl ==
    (bPc = "returned" /\ bApiKey # "") =>
        /\ Len(bResult) = Len(bUrls)
        /\ {bResult[k].url : k \in DOMAIN bResult} = Range(bUrls)

\* C2 (services/googleService.ts): once the fetches have settled, the
\* results start with one record per failed fetch, in the order of the
\* input, with the URL, the title "Fetch Failed" and the status read from
\* "status <digits>" in the message of the fetch error (the message quotes
\* the URL, and of the URLs here only ".../status 404" has such words), else
\* 500; no other record has that title; the prompt holds exactly the URLs
\* whose fetch returned; there is at most one request to the backend, and
\* none when no fetch returned.
C2_FetchFailedPlaceholders ==
    (bImpl = "multi" /\ bPc \in {"calling", "returned"}) =>
        /\ Len(bResult) >= Cardinality(FailedSlots)
        /\ \A k \in DOMAIN bResult :
              IF k <= Cardinality(FailedSlots)
              THEN /\ bResult[k].url = bUrls[NthSlot(FailedSlots, k)]
                   /\ bResult[k].title = "Fetch Failed"
                   /\ bResult[k].status =
                         IF bResult[k].url.path = "/status 404" THEN 404 ELSE 500
              ELSE bResult[k].title # "Fetch Failed"
        /\ Len(bSent) = Len(bUrls) - Cardinality(FailedSlots)
        /\ \A k \in DOMAIN bSent :
              bSent[k] = bUrls[NthSlot(DOMAIN calls \ FailedSlots, k)]
        /\ bModelCalls = IF FailedSlots = DOMAIN calls THEN 0 ELSE 1

C2_Witness ==
    /\ bImpl = "multi" /\ bPc = "returned" /\ Len(bUrls) = 2
    /\ calls[1].pc = "returned" /\ calls[2].pc = "thrown"
    /\ bResult[1].title = "Fetch Failed" /\ bResult[1].status = 404
    /\ bSent = <<bUrls[1]>> /\ bModelCalls = 1

\* The request to the backend, or the reading of its answer, raised: the
\* request failed, the answer was not 2xx, or its text is no JSON array
\* under any provider.
C3_Raised ==
    /\ bModelCalls = 1 /\ bPc \in {"returned", "thrown"}
    /\ \/ bOutcome.kind \in {"reject", "http", "httpbad"}
       \/ bOutcome.kind = "text"
            /\ bOutcome.text \in {<<"w">>, <<"[", "{", "url=p", "}">>,
                                  <<"{", "url=p", "}">>}

\* C3: when that happens the call still returns, and what it returns is
\* the Fetch Failed records followed by one "Analysis Failed" record with
\* status 500 for every URL of the prompt, and nothing else.
C3_BackendErrorsContained ==
    C3_Raised =>
        /\ bPc = "returned"
        /\ Len(bResult) = Cardinality(FailedSlots) + Len(bSent)
        /\ \A k \in DOMAIN bResult :
              IF k <= Cardinality(FailedSlots)
              THEN bResult[k].title = "Fetch Failed"
              ELSE /\ bResult[k].title = "Analysis Failed"
                   /\ bResult[k].status = 500
                   /\ bResult[k].url = bSent[k - Cardinality(FailedSlots)]

\* The error of a failed request and its own message (services/
\* googleService.ts: the rejection, or the error made from a non-2xx body).
C4_Failed ==
    /\ bImpl = "multi" /\ bPc = "returned" /\ bModelCalls = 1
    /\ bOutcome.kind \in {"reject", "http"}
C4_OwnMessage ==
    IF bOutcome.kind = "reject" THEN bOutcome.msg
    ELSE <<IF bProvider = "openrouter" THEN "OpenRouter" ELSE "OpenAI",
           "API Error:">> \o bOutcome.msg
C4_IsRateLimit ==
    \E k \in DOMAIN C4_OwnMessage :
        C4_OwnMessage[k] \in {"429", "RESOURCE_EXHAUSTED", "rate limit"}
C4_Descriptions ==
    {bResult[k].description :
        k \in {j \in DOMAIN bResult : bResult[j].title = "Analysis Failed"}}

\* C4 as stated: the Analysis Failed records carry the fixed rate-limit
\* message when the error's message contains "429", "RESOURCE_EXHAUSTED" or
\* "rate limit", and the error's own message for every other error.
C4_OwnMessageOtherwise ==
    C4_Failed =>
        C4_Descriptions =
            {IF C4_IsRateLimit
             THEN <<"API", "rate limit", "exceeded. Please wait a moment and try again.">>
             ELSE C4_OwnMessage}

\* C4 amended: the fixed rate-limit message for a message with one of the
\* three substrings; else the error's own message when it is not empty, and
\* "Could not parse AI response." when it is.
C4_ErrorMessageMapping ==
    C4_Failed =>
        C4_Descriptions =
            {IF C4_IsRateLimit
             THEN <<"API", "rate limit", "exceeded. Please wait a moment and try again.">>
             ELSE IF C4_OwnMessage # <<>> THEN C4_OwnMessage
             ELSE <<"Could not parse AI response.">>}

C4_Witness ==
    /\ C4_Failed /\ bProvider = "openrouter"
    /\ bOutcome = HttpErr(<<"Quota:", "RESOURCE_EXHAUSTED">>)
    /\ Len(bResult) = 2 /\ bResult[1].title = "Fetch Failed"
    /\ bResult[2].title = "Analysis Failed"
    /\ bResult[2].description =
          <<"API", "rate limit", "exceeded. Please wait a moment and try again.">>

\* A line of robots.txt that starts with "sitemap:" in some casing and
\* has a URL after the colon.
C11_NamesSitemap(line) ==
    line.prefix \in {"sitemap:", "Sitemap:", "SITEMAP:"} /\ line.value # Loc("", "")

\* C11: right after robots.txt was read, the queue holds the URLs of its
\* sitemap lines in file order and nothing else when there is such a line,
\* and holds {origin}/sitemap.xml alone when there is none; when robots.txt
\* could not be fetched the queue holds {origin}/sitemap.xml alone.
C11_QueueSeed ==
    /\ smLast.what = "robots" =>
          LET named == SelectSeq(smLast.lines, C11_NamesSitemap)
          IN  smQueue = IF named # <<>>
                        THEN [k \in DOMAIN named |-> named[k].value]
                        ELSE <<Loc("/sitemap", ".xml")>>
    /\ smLast.what = "norobots" => smQueue = <<Loc("/sitemap", ".xml")>>

\* robots.txt names two sitemaps, neither of them the default location.
C11_Witness ==
    /\ smLast.what = "robots"
    /\ smLast.lines = <<RobotsLine("sitemap:", Loc("/map", ".XML")),
                        RobotsLine(" Sitemap:", Loc("/idx", ".Xml.GZ"))>>
    /\ smQueue = <<Loc("/map", ".XML")>>

\* C12: the iteration in which the fetch or the parse of a sitemap fails
\* leaves the accumulated entries and the rest of the queue as they are and
\* goes on with the loop; no error leaves the function once it has started
\* fetching; a sitemap leaves the queue only when it is or becomes visited;
\* the traversal can always go on until it returns, and it returns with the
\* queue empty.
C12_FailureIsNotFatal ==
    /\ [][(smPc = "loop" /\ smLast'.what = "failed"
              /\ visitedSitemaps' # visitedSitemaps) =>
            /\ allEntries' = allEntries
            /\ smQueue' = Tail(smQueue)
            /\ smPc' \in {"loop", "delay"}]_vars
    /\ [](smPc = "thrown" => ~smNet)
    /\ [][\A l \in Range(smQueue) :
              l \in Range(smQueue') \/ l \in visitedSitemaps']_vars
    /\ [](smPc = "done" => smQueue = <<>>)
    /\ [](smPc \in {"robots", "loop", "delay"} => ENABLED NextSitemap)

\* A traversal that returned entries although its last sitemap failed.
C12_Witness ==
    /\ smPc = "done" /\ smLast.what = "failed"
    /\ Len(smResult) > 0 /\ Cardinality(visitedSitemaps) > 1

\* C13: the iteration whose fetch fails changes neither the found URLs
\* nor the queue and goes on with the loop; the found URLs only grow, the
\* seed first; the crawl never ends in an error and can always go on until
\* it returns; what it returns is the found URLs.
C13_FetchFailureSwallowed ==
    /\ [][(crawlLast' = "fail" /\ qi' # qi) =>
            /\ foundUrls' = foundUrls /\ queue' = queue /\ visited' = visited
            /\ qi' = qi + 1 /\ crawlPc' = "loop"]_vars
    /\ [][crawlPc = "loop" =>
            /\ Len(foundUrls') >= Len(foundUrls)
            /\ SubSeq(foundUrls', 1, Len(foundUrls)) = foundUrls]_vars
    /\ [](crawlPc \in {"idle", "loop", "done"})
    /\ [](crawlPc = "loop" =>
            /\ foundUrls[1] = startUrl
            /\ ENABLED (CrawlSkip \/ CrawlFetchFail \/ CrawlReturn))
    /\ [](crawlPc = "done" => crawlResult = foundUrls /\ crawlResult[1] = startUrl)

\* A crawl that returned the seed and a discovered URL although the fetch
\* of its last page failed.
C13_Witness ==
    /\ crawlPc = "done" /\ crawlLast = "fail"
    /\ Len(crawlResult) > 1 /\ Len(crawlFetched) > 1

\* C14: a call of analyzePageBatch, fetchAllUrlsFromSitemaps,
\* analyzeRobotsTxt or analyzeAdsTxt with an empty API key has thrown, and
\* it has issued no fetch through the relay and no request to the backend.
C14_EmptyKeyFailsFast ==
    /\ (bPc \notin {"idle", "called"} /\ bApiKey = "") =>
          bPc = "thrown" /\ bError # <<>> /\ calls = <<>> /\ bModelCalls = 0
    /\ (wkPc \notin {"idle", "called"} /\ wkApiKey = "") =>
          wkPc = "thrown" /\ wkError # <<>> /\ calls = <<>> /\ wkModelCalls = 0
    /\ (smPc \notin {"idle", "called"} /\ smApiKey = "") =>
          smPc = "thrown" /\ ~smNet /\ smLast.what = "none"

\* analyzePageBatch called with two URLs and no key.
C14_Witness ==
    /\ bPc = "thrown" /\ bApiKey = "" /\ Len(bUrls) = 2 /\ bProvider = "openai"
    /\ bError = <<"OpenAI", "API key is required.">>


\* C15: a run of handleAnalysis that passed its preconditions ends in
\* exactly one of two outcomes: an error is reported and no snapshot is
\* saved or shown, or a snapshot is saved or shown and no error is
\* reported; a sitemap run that found zero entries ends with an error.
C15_ErrorOutcome ==
    hError # "" /\ ~hSaved /\ hViewing \notin {"transient", "saved"}
C15_SnapshotOutcome ==
    hError = "" /\ (hSaved \/ hViewing \in {"transient", "saved"})
C15_ErrorOrSnapshot ==
    hPc = "done" =>
        /\ C15_ErrorOutcome \/ C15_SnapshotOutcome
        /\ (hMode = "sitemap" /\ hEntries = 0) => C15_ErrorOutcome

\* C16: the loc values of the entries returned by fetchAllUrlsFromSitemaps
\* are pairwise distinct, also when one page URL is listed in two sitemaps
\* or twice in one sitemap.
C16_LocsPairwiseDistinct ==
    smPc = "done" =>
        \A i, j \in 1..Len(smResult) :
            smResult[i].loc = smResult[j].loc => i = j

\* C17: when the backend answers HTTP 200 with an error envelope
\* {"error": {"message": M}}, analyzePageBatch returns, for every URL whose
\* fetch succeeded, an Analysis Failed placeholder whose description is the
\* provider's message M, or the rate-limit message when M is rate-limit
\* classed; no record is built from the envelope.
IsErrorEnvelope(mo) ==
    /\ mo.kind = "text"
    /\ Len(mo.text) = 6
    /\ SubSeq(mo.text, 1, 3) = <<"{", "error:", "{">>
EnvelopeMessage(mo) ==
    IF mo.text[4] = "message=429" THEN <<"429">> ELSE <<"quota">>
CarriesEnvelopeMessage(description, mo) ==
    IF Includes(EnvelopeMessage(mo), "429")
    THEN description = RateLimitMessage
    ELSE \E prefix \in {<<>>, <<"Gemini API Error:">>} :
            description = prefix \o EnvelopeMessage(mo)
C17_EnvelopeIsBatchFailure ==
    (bPc = "returned" /\ IsErrorEnvelope(bOutcome)) =>
        /\ Len(bResult) = Len(bUrls)
        /\ \A k \in 1..Len(bResult) :
              k > Len(bResult) - Len(bSent) =>
                  /\ bResult[k].url = bSent[k - (Len(bResult) - Len(bSent))]
                  /\ bResult[k].title = "Analysis Failed"
                  /\ CarriesEnvelopeMessage(bResult[k].description, bOutcome)

\* C18: in analyzeRobotsTxt and analyzeAdsTxt, when the file was fetched
\* and the text of the model's response contains no parseable JSON, the
\* call fails with an error, for every provider; it returns no result.
NoParseableJson(text) ==
    \A a \in 1..(Len(text) + 1), b \in 0..Len(text) :
        ~JsonParse(SubSeq(text, a, b)).ok
C18_NoJsonFails ==
    (wkPc \in {"returned", "thrown"} /\ wkModelCalls = 1
        /\ wkOutcome.kind = "text" /\ NoParseableJson(wkOutcome.text))
    => (wkPc = "thrown" /\ wkError # <<>>)

\* C19: every value returned by analyzeRobotsTxt has both top-level keys
\* rules and sitemaps, every value returned by analyzeAdsTxt has both
\* records and malformedLines; a parsed response of the model that lacks
\* one of the two keys makes the call fail instead of being returned.
TopLevelKeys(v) ==
    IF v.t # "obj" THEN {}
    ELSE v.atoms \cup {v.nested[n].key : n \in DOMAIN v.nested}
HasBothKeys(v, kind) ==
    IF kind = "robots"
    THEN {"rules", "sitemaps"} \subseteq TopLevelKeys(v)
    ELSE {"records", "malformedLines"} \subseteq TopLevelKeys(v)
ParsedResponse ==
    IF wkImpl = "legacy" \/ wkProvider = "gemini"
    THEN JsonParse(extractJson(wkOutcome.text))
    ELSE JsonParse(wkOutcome.text)
C19_ResultHasBothKeys ==
    /\ wkPc = "returned" => HasBothKeys(wkResult, wkKind)
    /\ (wkPc \in {"returned", "thrown"} /\ wkModelCalls = 1
          /\ wkOutcome.kind = "text" /\ ParsedResponse.ok
          /\ ~HasBothKeys(ParsedResponse.val, wkKind))
       => (wkPc = "thrown" /\ wkError # <<>>)
C19_Witness ==
    /\ wkPc = "thrown" /\ wkModelCalls = 1
    /\ wkOutcome.kind = "text" /\ ParsedResponse.ok
    /\ ParsedResponse.val.t = "obj"
    /\ TopLevelKeys(ParsedResponse.val) \in {{"rules"}, {"records"}}
    /\ Includes(wkError, "structure.")

\* C20: every record analyzePageBatch builds from an item of the model's
\* array has every field defined: a missing or null title, description, h1
\* or contentPreview is "N/A", a missing internalLinks or externalLinks is
\* 0, a missing metaTags, internalLinkUrls or externalLinkUrls is the empty
\* list; a null item does not make the call fail.
RecordFields ==
    {"url", "status", "title", "description", "h1", "contentPreview",
     "internalLinks", "externalLinks", "metaTags", "internalLinkUrls",
     "externalLinkUrls"}
\* The items of an answer that is an array as it stands.
AnswerItems ==
    IF bOutcome.kind = "text" /\ JsonParse(bOutcome.text).ok
          /\ JsonParse(bOutcome.text).val.t = "arr"
    THEN JsonParse(bOutcome.text).val.items
    ELSE <<>>
\* The record built from the k-th item: the records of the items follow
\* the placeholders of the failed fetches.
RecordOfItem(k) == bResult[Len(bUrls) - Len(bSent) + k]
HasValue(item, key, value) ==
    item.t = "obj" /\ (key \o "=" \o value) \in item.atoms
ExpectedField(item, key, value, default) ==
    IF HasValue(item, key, value) THEN value ELSE default
FieldsAsExpected(item, rec) ==
    /\ RecordFields \subseteq DOMAIN rec
    /\ rec.title = ExpectedField(item, "title", "T", "N/A")
    /\ rec.description = <<ExpectedField(item, "description", "D", "N/A")>>
    /\ rec.h1 = ExpectedField(item, "h1", "H", "N/A")
    /\ rec.contentPreview = ExpectedField(item, "contentPreview", "C", "N/A")
    /\ rec.internalLinks = ExpectedField(item, "internalLinks", "3", "0")
    /\ rec.externalLinks = ExpectedField(item, "externalLinks", "1", "0")
    /\ rec.metaTags = ExpectedField(item, "metaTags", "[m]", "[]")
    /\ rec.internalLinkUrls = ExpectedField(item, "internalLinkUrls", "[u]", "[]")
    /\ rec.externalLinkUrls = ExpectedField(item, "externalLinkUrls", "[v]", "[]")
C20_EveryFieldDefined ==
    (bPc \in {"returned", "thrown"} /\ bModelCalls = 1 /\ AnswerItems # <<>>) =>
        /\ bPc = "returned"
        /\ Len(bResult) = Len(bUrls) - Len(bSent) + Len(AnswerItems)
        /\ \A k \in 1..Len(AnswerItems) :
              FieldsAsExpected(AnswerItems[k], RecordOfItem(k))
C20_Witness ==
    /\ bPc = "returned" /\ bModelCalls = 1
    /\ \E k \in 1..Len(AnswerItems) :
          /\ \/ AnswerItems[k].t = "null"
             \/ HasValue(AnswerItems[k], "h1", "null")
          /\ RecordOfItem(k).h1 = "N/A"
          /\ RecordOfItem(k).internalLinks = "0"
          /\ RecordOfItem(k).externalLinkUrls = "[]"

\* C22: when every attempt to fetch a URL through the relay ends with the
\* same non-2xx relay status S, the Fetch Failed placeholder analyzePageBatch
\* produces for that URL has status S, not the default 500.
EveryAttemptGot(c, status) ==
    /\ c.pc = "thrown" /\ c.retries = DefaultRetries /\ c.attempts = c.retries
    /\ \A k \in EventsOf(c, "fail") :
          c.events[k].err = [kind |-> "http", status |-> status]
C22_PlaceholderHasRelayStatus ==
    \A status \in RelayStatuses :
        EveryAttemptGot(calls[1], status)
            => FetchFailedPage("multi", calls[1]).status = status

\* C23: for every text, extractJson returns either the empty string or the
\* substring from the first opening bracket ('{' or '[') to the last
\* closing bracket of that opening bracket's kind, so that prose before and
\* after the JSON value is discarded; it returns the empty string when the
\* text has no opening bracket or no such closing bracket after it.
FirstOpening(text) ==
    IF \E k \in DOMAIN text : text[k] \in {"{", "["}
    THEN CHOOSE k \in DOMAIN text :
            /\ text[k] \in {"{", "["}
            /\ \A j \in 1..(k - 1) : text[j] \notin {"{", "["}
    ELSE 0
ClosingOf(open) == IF open = "{" THEN "}" ELSE "]"
LastMatchingClosing(text) ==
    LET s == FirstOpening(text)
        ks == {k \in s..Len(text) : text[k] = ClosingOf(text[s])}
    IN  IF s = 0 \/ ks = {} THEN 0
        ELSE CHOOSE k \in ks : \A j \in ks : j <= k
C23_FirstToLastMatching ==
    exPc = "returned" =>
        IF LastMatchingClosing(exText) = 0
        THEN exResult = <<>>
        ELSE exResult \in
                {<<>>, SubSeq(exText, FirstOpening(exText), LastMatchingClosing(exText))}

\* C21: for a fixed link graph and fixed fetch outcomes, discoverUrlsToCrawl
\* returns exactly the seed and every same-hostname http(s) URL (fragment
\* stripped) reachable from the seed by a chain of at most crawlDepth links
\* through successfully fetched pages; with depth 1 and a seed page that
\* holds two same-site links and one external link it returns 3 URLs.
RECURSIVE ReachWithin(_)
ReachWithin(n) ==
    IF n = 0 THEN {startUrl}
    ELSE ReachWithin(n - 1)
         \cup {e[2] : e \in {d \in crawlGraph.edges : d[1] \in ReachWithin(n - 1)}}
SeedLinksTo == {e[2] : e \in {d \in crawlGraph.edges : d[1] = startUrl}}
C21_ExactlyTheReachable ==
    crawlPc = "done" =>
        /\ Range(crawlResult) = ReachWithin(crawlDepth)
        /\ (crawlDepth = 1 /\ Cardinality(SeedLinksTo \ {startUrl}) = 2)
              => Len(crawlResult) = 3
C21_Witness ==
    /\ crawlPc = "done" /\ crawlDepth = 1 /\ crawlSawForeign
    /\ Cardinality(SeedLinksTo \ {startUrl}) = 2
    /\ Len(crawlResult) = 3

\* C24: in crawl mode the discovered URLs are split into consecutive
\* batches of 3, the last possibly smaller, every URL in exactly one batch;
\* the batches are dispatched one at a time in list order; a batch whose
\* model call fails does not stop the run: every later batch is still
\* dispatched and the accumulated result holds the output of every batch.
RECURSIVE SumOut(_)
SumOut(bs) == IF bs = <<>> THEN 0 ELSE Head(bs).out + SumOut(Tail(bs))
UrlsOfBatch(b) == b.first..(b.first + b.size - 1)
C24_BatchesOfThree ==
    /\ [](\A k \in DOMAIN hBatches :
            /\ hBatches[k].first = 3 * (k - 1) + 1
            /\ hBatches[k].size >= 1 /\ hBatches[k].size <= 3
            /\ k < Len(hBatches) => hBatches[k].size = 3
            /\ UrlsOfBatch(hBatches[k]) \subseteq 1..hUrls)
    /\ [](hCrawled = SumOut(hBatches))
    /\ []((hPc = "batches" /\ hI < hUrls) => ENABLED AuditBatch)
    /\ [][hPc = "batches" =>
            /\ Len(hBatches') <= Len(hBatches) + 1
            /\ hError' = "" /\ hPc' \in {"batches", "saving", "done"}
            /\ hPc' # "batches" =>
                  /\ hBatches' = hBatches
                  /\ \A u \in 1..hUrls :
                        Cardinality({k \in DOMAIN hBatches :
                                        u \in UrlsOfBatch(hBatches[k])}) = 1]_vars
C24_Witness ==
    /\ hPc = "done" /\ hError = "" /\ hUrls = 4
    /\ Len(hBatches) = 2 /\ hBatches[1].failed /\ hBatches[2].size = 1
    /\ hCrawled = hBatches[1].out + hBatches[2].out

\* C25: in discoverUrlsToCrawl the visited set, the result set and the set
\* of URLs ever enqueued are equal in every state; each URL is enqueued and
\* fetched at most once per crawl; the returned list holds no URL twice.
\* Two URL strings are the same URL when new URL(s).href is the same.
NoUrlTwice(urls) ==
    \A i, j \in DOMAIN urls : Href(urls[i]) = Href(urls[j]) => i = j
UrlsOfEntries(entries) == [k \in DOMAIN entries |-> entries[k].url]
C25_EachUrlOnce ==
    /\ visited = Range(foundUrls)
    /\ visited = Range(UrlsOfEntries(queue))
    /\ NoUrlTwice(UrlsOfEntries(queue))
    /\ NoUrlTwice(UrlsOfEntries(crawlFetched))
    /\ NoUrlTwice(crawlResult)

\* C26: fetchAllUrlsFromSitemaps fetches and parses each distinct sitemap
\* URL at most once, also when it is enqueued several times or when sitemap
\* indexes reference each other in a cycle, so that the traversal ends for
\* every finite set of sitemap URLs: a sitemap is fetched only when it is
\* not yet visited and is visited from then on, and every iteration either
\* visits a new sitemap or shortens the queue.
KnownSitemapUrls ==
    SitemapLocs \cup {DefaultSitemap} \cup {l.value : l \in RobotsLines}
IsFetchOfSitemap ==
    smPc = "loop" /\ Len(smQueue) > 0 /\ smLast'.what \in {"parsed", "failed"}
C26_EachSitemapOnce ==
    /\ [][IsFetchOfSitemap =>
            /\ smLast'.url = Head(smQueue)
            /\ smLast'.url \notin visitedSitemaps
            /\ smLast'.url \in visitedSitemaps']_vars
    /\ [][visitedSitemaps \subseteq visitedSitemaps']_vars
    /\ [](visitedSitemaps \subseteq KnownSitemapUrls)
    /\ [][(smPc = "loop" /\ smPc' # "done") =>
            \/ visitedSitemaps' # visitedSitemaps
            \/ Len(smQueue') < Len(smQueue)]_vars
    /\ [](smPc \in {"loop", "delay"} =>
            ENABLED (SmSkipVisited \/ SmFail \/ SmDelay \/ SmReturn))
C26_Witness ==
    /\ smPc \in {"loop", "delay", "done"}
    /\ smLast.what = "skip" /\ smLast.url \in visitedSitemaps
    /\ Cardinality(visitedSitemaps) > 1

\* C27: on every finite link graph, and whatever page fetches fail,
\* discoverUrlsToCrawl eventually empties its queue and returns.
C27_CrawlReturns ==
    <>(crawlPc = "done" /\ qi = Len(queue) /\ crawlResult = foundUrls)
C27_Witness ==
    /\ crawlPc = "done" /\ qi = Len(queue) /\ Len(queue) > 2
    /\ Len(crawlFetched) > 1 /\ crawlDepth = MaxDepth

\* C28: in discoverUrlsToCrawl the queue is processed in first-in-first-out
\* order with non-decreasing depth, and the depth recorded for each
\* discovered URL is the length of the shortest chain of links from the
\* seed to it through successfully fetched pages.
ChainLength(url) ==
    CHOOSE n \in 0..(MaxDepth + 1) :
        /\ url \in ReachWithin(n)
        /\ \A m \in 0..(n - 1) : url \notin ReachWithin(m)
C28_FifoShortestChain ==
    /\ [](\A k \in 1..(Len(queue) - 1) : queue[k].depth <= queue[k + 1].depth)
    /\ [](qi <= Len(queue))
    /\ [][/\ SubSeq(queue', 1, Len(queue)) = queue
          /\ qi' \in {qi, qi + 1}
          /\ Len(crawlFetched') > Len(crawlFetched) =>
                /\ qi' = qi + 1
                /\ crawlFetched' = Append(crawlFetched, queue[qi + 1])]_vars
    /\ [](\A k \in DOMAIN queue :
            /\ queue[k].url \in ReachWithin(crawlDepth)
            /\ queue[k].depth = ChainLength(queue[k].url))
C28_Witness ==
    /\ crawlPc = "done" /\ Len(queue) > 2
    /\ queue[Len(queue)].depth = 2
    /\ \E k \in DOMAIN queue : queue[k].depth = 1 /\ k < Len(queue)

\* C29: in analyzePageBatch the fetches of all the URLs of the batch are in
\* flight together; the model backend is called at most once per batch;
\* that call starts only after every fetch of the batch has settled, by a
\* page or by its last retry, in whatever order the fetches complete.
Settled(c) == c.pc \in {"returned", "thrown"}
C29_ModelCallAfterAllFetches ==
    /\ [](bPc = "fetching" =>
            /\ Len(calls) = Len(bUrls)
            /\ \A s \in DOMAIN calls :
                  /\ calls[s].url = bUrls[s]
                  /\ calls[s].pc \in {"attempt", "backoff", "returned", "thrown"})
    /\ [](bModelCalls <= 1)
    /\ [](bModelCalls = 1 => \A s \in DOMAIN calls : Settled(calls[s]))
    /\ [][bModelCalls' # bModelCalls =>
            /\ bModelCalls' = bModelCalls + 1
            /\ calls' = calls
            /\ \A s \in DOMAIN calls : Settled(calls[s])]_vars
    /\ [][(bPc \in {"calling", "returned", "thrown"}) =>
            (calls' = calls /\ bModelCalls' = bModelCalls)]_vars
\* The second fetch has returned while the first is between two attempts;
\* no request has gone to the backend.
C29_Witness ==
    /\ bPc = "fetching" /\ Len(calls) = 2 /\ bModelCalls = 0
    /\ calls[1].pc = "backoff" /\ calls[1].attempts = 1
    /\ calls[2].pc = "returned"

\* C30: two discovery runs whose steps interleave share no queue, visited
\* set or accumulator: a step of one run leaves the other run as it was, and
\* each run returns what it returns when it runs alone against the same
\* fetch and model outcomes.
RECURSIVE AloneCrawl(_, _, _, _)
AloneCrawl(st, i, seed, depth) ==
    IF i >= Len(st.queue) THEN st.foundUrls
    ELSE LET e == st.queue[i + 1]
             o == web.pages[e.url]
         IN  IF SkipExpansion(e.depth, depth) \/ ~o.ok
             THEN AloneCrawl(st, i + 1, seed, depth)
             ELSE AloneCrawl(VisitLinks(st, o.body, e.url, e.depth, seed),
                             i + 1, seed, depth)
RECURSIVE AloneSitemap(_, _, _)
AloneSitemap(q, vis, entries) ==
    IF q = <<>> THEN entries
    ELSE IF Head(q) \in vis THEN AloneSitemap(Tail(q), vis, entries)
    ELSE LET o  == web.sitemaps[Head(q)]
             st == ConsumeEntries([queue |-> Tail(q), allEntries |-> entries,
                                   threw |-> FALSE, reached |-> 0],
                                  MapFilterEntries(o.body), vis \cup {Head(q)})
         IN  IF o.ok
             THEN AloneSitemap(st.queue, vis \cup {Head(q)}, st.allEntries)
             ELSE AloneSitemap(Tail(q), vis \cup {Head(q)}, entries)
ResultAlone(run) ==
    IF runKind = "crawl"
    THEN AloneCrawl([visited |-> {run.seed}, foundUrls |-> <<run.seed>>,
                     queue |-> <<[url |-> run.seed, depth |-> 0]>>],
                    0, run.seed, run.depth)
    ELSE AloneSitemap(WithDefaultSitemap(IF web.robots.ok
                                         THEN SeedFromRobots(web.robots.body)
                                         ELSE <<>>),
                      {}, <<>>)
C30_RunsDoNotInterfere ==
    /\ [](\A r \in DOMAIN runs :
            /\ runs[r].pc = "done" => runs[r].result = ResultAlone(runs[r])
            /\ runs[r].pc = "thrown" => runs[r].key = "")
    /\ [][\E r \in RunIds : runs'[3 - r] = runs[3 - r]]_vars
\* Both runs have returned, one having taken steps while the other was
\* under way, from the same seed with different depths: the results differ,
\* the deeper run having found more.
C30_Witness ==
    /\ runKind = "crawl" /\ runsMet
    /\ runs[1].pc = "done" /\ runs[2].pc = "done"
    /\ runs[1].seed = runs[2].seed
    /\ Len(runs[1].result) = 1 /\ Len(runs[2].result) >= 2
\* Two sitemap traversals have returned the same entries, having met.
C30_WitnessSitemaps ==
    /\ runKind = "sitemap" /\ runsMet
    /\ runs[1].pc = "done" /\ runs[2].pc = "done"
    /\ Len(runs[1].result) >= 1 /\ runs[1].visited = SitemapLocs
=============================================================================
